---- MODULE Spec2Model ----
(***************************************************************************)
(* gun: a git branch / pull-request workflow script (src/index.ts, lines   *)
(* 1-326).  The run is a straight-line program; every step that prompts    *)
(* the operator or runs an external command is one action.  Text is        *)
(* modelled as sequences of one-character strings so that trim, split and  *)
(* comparison are computed as the code computes them.                      *)
(*                                                                         *)
(* A command awaited without nothrow throws on a non-zero exit code; an    *)
(* uncaught exception ends the process with exit code 1.  The operator's   *)
(* interrupt signal is not modelled.  Lines 328-514 of src/index.ts hold   *)
(* an older copy of the script and are not part of this workflow.          *)
(***************************************************************************)
EXTENDS Integers, Sequences, FiniteSets, TLC

(* ------------------------------------------------------------------ *)
(* Bounds                                                             *)
(* ------------------------------------------------------------------ *)
\* longest commit-message pool file, in lines
MaxPoolLines == 2

(* ------------------------------------------------------------------ *)
(* Text helpers                                                       *)
(* ------------------------------------------------------------------ *)
\* String.prototype.trim: the characters it strips that occur in the model
WhiteSpace == {" ", "\n", "\t", "\r"}

RECURSIVE TrimStart(_)
TrimStart(s) ==
    IF s = <<>> THEN <<>>
    ELSE IF Head(s) \in WhiteSpace THEN TrimStart(Tail(s))
    ELSE s

RECURSIVE TrimEnd(_)
TrimEnd(s) ==
    IF s = <<>> THEN <<>>
    ELSE IF s[Len(s)] \in WhiteSpace THEN TrimEnd(SubSeq(s, 1, Len(s) - 1))
    ELSE s

\* s.trim()
Trim(s) == TrimEnd(TrimStart(s))

\* s.split(sep) for a one-character separator: always at least one part
RECURSIVE SplitOn(_, _)
SplitOn(s, sep) ==
    IF \A i \in 1..Len(s) : s[i] # sep THEN <<s>>
    ELSE LET k == CHOOSE i \in 1..Len(s) :
                     s[i] = sep /\ \A j \in 1..(i - 1) : s[j] # sep
         IN  <<SubSeq(s, 1, k - 1)>> \o SplitOn(SubSeq(s, k + 1, Len(s)), sep)

\* s.replace(/\n/g, '')
RECURSIVE RemoveNewlines(_)
RemoveNewlines(s) ==
    IF s = <<>> THEN <<>>
    ELSE IF Head(s) = "\n" THEN RemoveNewlines(Tail(s))
    ELSE <<Head(s)>> \o RemoveNewlines(Tail(s))

\* array.filter(pred) for a set of kept elements
RECURSIVE FilterSeq(_, _)
FilterSeq(seq, keep) ==
    IF seq = <<>> THEN <<>>
    ELSE IF Head(seq) \in keep THEN <<Head(seq)>> \o FilterSeq(Tail(seq), keep)
    ELSE FilterSeq(Tail(seq), keep)

\* all sequences over S of length at most n
RECURSIVE SeqsUpTo(_, _)
SeqsUpTo(S, n) ==
    IF n = 0 THEN {<<>>}
    ELSE LET shorter == SeqsUpTo(S, n - 1)
         IN  shorter \cup {Append(q, x) : q \in shorter, x \in S}

(* ------------------------------------------------------------------ *)
(* Program constants                                                  *)
(* ------------------------------------------------------------------ *)
sMain     == <<"m", "a", "i", "n">>
sMaster   == <<"m", "a", "s", "t", "e", "r">>
sBullseye == <<"b", "u", "l", "l", "s", "e", "y", "e">>

defaultBranches == {sMain, sMaster, sBullseye}

kCreatePr      == <<"C", "R", "E", "A", "T", "E", "_", "P", "R">>
kFunnyCommit   == <<"F", "U", "N", "N", "Y", "_", "C", "O", "M", "M", "I", "T">>
kAutoMerge     == <<"A", "U", "T", "O", "_", "M", "E", "R", "G", "E">>
kBackToDefault == <<"B", "A", "C", "K", "_", "T", "O", "_", "D", "E", "F", "A", "U", "L", "T">>
kDeleteBranch  == <<"D", "E", "L", "E", "T", "E", "_", "B", "R", "A", "N", "C", "H">>

configKeys == <<kCreatePr, kFunnyCommit, kAutoMerge, kBackToDefault, kDeleteBranch>>

configKeySet == {configKeys[i] : i \in 1..Len(configKeys)}

sTrue  == <<"t", "r", "u", "e">>
sFalse == <<"f", "a", "l", "s", "e">>
sWip   == <<"w", "i", "p">>

requiredCommands == << <<"g", "i", "t">>, <<"g", "h">> >>

\* template interpolation of a boolean
BoolStr(b) == IF b THEN sTrue ELSE sFalse

\* the in-memory defaults of loadConfig
DefaultConfig == [k \in configKeySet |-> TRUE]

(* ------------------------------------------------------------------ *)
(* loadConfig: parsing of the persisted store                         *)
(* ------------------------------------------------------------------ *)
\* one line of the store applied to the toggles read so far
ConfigLine(cfg, line) ==
    LET parts == SplitOn(line, "=")
        key   == parts[1]
        value == IF Len(parts) >= 2 THEN parts[2] ELSE <<>>
    IN  IF key # <<>> /\ Len(parts) >= 2 /\ value # <<>>
        THEN IF Trim(key) \in configKeySet
             THEN IF Trim(value) = sTrue THEN [cfg EXCEPT ![Trim(key)] = TRUE]
                  ELSE IF Trim(value) = sFalse THEN [cfg EXCEPT ![Trim(key)] = FALSE]
                  ELSE cfg
             ELSE cfg
        ELSE cfg

\* the console.warn of one line: "invalid", "unknown" or "none"
ConfigLineWarning(line) ==
    LET parts == SplitOn(line, "=")
        key   == parts[1]
        value == IF Len(parts) >= 2 THEN parts[2] ELSE <<>>
    IN  IF key # <<>> /\ Len(parts) >= 2 /\ value # <<>>
        THEN IF Trim(key) \in configKeySet
             THEN IF Trim(value) \in {sTrue, sFalse} THEN "none" ELSE "invalid"
             ELSE "unknown"
        ELSE "none"

RECURSIVE ParseConfigFrom(_, _)
ParseConfigFrom(cfg, lines) ==
    IF lines = <<>> THEN cfg
    ELSE ParseConfigFrom(ConfigLine(cfg, Head(lines)), Tail(lines))

\* the try block of loadConfig on the lines of an existing store
ParseConfig(lines) == ParseConfigFrom(DefaultConfig, lines)

ConfigWarnings(lines) ==
    [i \in 1..Len(lines) |-> ConfigLineWarning(lines[i])]

\* key:value
KeyValueColon(key, b) == key \o <<":">> \o BoolStr(b)

\* key=value
KeyValue(key, b) == key \o <<"=">> \o BoolStr(b)

\* the store with the last two answers written under each other's key
ConfigContentSwapped(cp, fc, am, bd, db) ==
    << KeyValue(kCreatePr, cp), KeyValue(kFunnyCommit, fc), KeyValue(kAutoMerge, am),
       KeyValue(kBackToDefault, db), KeyValue(kDeleteBranch, bd) >>

\* the five-line store first-run setup writes, as split('\n') sees it
\* (dedent trims the text, so no empty line follows the fifth)
ConfigContent(cp, fc, am, bd, db) ==
    << KeyValue(kCreatePr, cp), KeyValue(kFunnyCommit, fc), KeyValue(kAutoMerge, am),
       KeyValue(kBackToDefault, bd), KeyValue(kDeleteBranch, db) >>

(* ------------------------------------------------------------------ *)
(* Branch name sanitization                                           *)
(* ------------------------------------------------------------------ *)
LowerCase == << "a", "b", "c", "d", "e", "f", "g", "h", "i", "j", "k", "l", "m",
                "n", "o", "p", "q", "r", "s", "t", "u", "v", "w", "x", "y", "z" >>
UpperCase == << "A", "B", "C", "D", "E", "F", "G", "H", "I", "J", "K", "L", "M",
                "N", "O", "P", "Q", "R", "S", "T", "U", "V", "W", "X", "Y", "Z" >>
Digits    == {"0", "1", "2", "3", "4", "5", "6", "7", "8", "9"}

LowerSet == {LowerCase[i] : i \in 1..Len(LowerCase)}
UpperSet == {UpperCase[i] : i \in 1..Len(UpperCase)}

\* the character class [a-zA-Z0-9]
AlphaNum == LowerSet \cup UpperSet \cup Digits

\* one character of toLowerCase()
ToLowerChar(c) ==
    IF c \in UpperSet
    THEN LowerCase[CHOOSE i \in 1..Len(UpperCase) : UpperCase[i] = c]
    ELSE c

\* the replacement without the toLowerCase()
SanitizeKeepCase(name) ==
    [i \in 1..Len(name) |-> IF name[i] \in AlphaNum THEN name[i] ELSE "-"]

\* branchName.replace(/[^a-zA-Z0-9]/g, '-').toLowerCase()
Sanitize(name) ==
    [i \in 1..Len(name) |->
        ToLowerChar(IF name[i] \in AlphaNum THEN name[i] ELSE "-")]

(* ------------------------------------------------------------------ *)
(* Commit message pool                                                *)
(* ------------------------------------------------------------------ *)
\* the filter without the startsWith('#') test
EligibleLineAnyStart(line) == Trim(line) # <<>>

\* the filter of getCommitMessage: !line.startsWith('#') && line.trim() !== ''
EligibleLine(line) ==
    /\ ~(line # <<>> /\ Head(line) = "#")
    /\ Trim(line) # <<>>

EligibleLines(lines) ==
    FilterSeq(lines, {lines[i] : i \in {j \in 1..Len(lines) : EligibleLine(lines[j])}})

(* ------------------------------------------------------------------ *)
(* Inputs: what the environment and the operator can supply           *)
(* ------------------------------------------------------------------ *)
\* the two files of the workflow
sIndex   == "index.ts"
sVariant == "part_000"
Scripts  == {sIndex, sVariant}

Platforms == {"win32", "linux", "darwin", "freebsd"}

ExitCodes == 0..1

\* which of the required tools are on the PATH of the run
tGit == <<"g", "i", "t">>
tGh  == <<"g", "h">>
Installations == SUBSET {tGit, tGh}

\* process.env.SHELL?.split('/').pop()
Shells == {"zsh", "bash", "fish"}

NoFile == [exists |-> FALSE, lines |-> <<>>]
File(lines) == [exists |-> TRUE, lines |-> lines]

\* a store edited by hand: unknown key, invalid value, second '=', no '=',
\* padded key and value
EditedStore ==
    << <<"F", "O", "O", "=", "t", "r", "u", "e">>,
       kAutoMerge \o <<"=", "y", "e", "s">>,
       kCreatePr \o <<"=", "f", "a", "l", "s", "e", "=", "x">>,
       kDeleteBranch,
       <<" ">> \o kFunnyCommit \o <<" ", "=", " ", "f", "a", "l", "s", "e", " ">> >>

ConfigStores ==
    { NoFile,
      File(<< <<>> >>),
      File(ConfigContent(FALSE, FALSE, FALSE, FALSE, FALSE)),
      File(ConfigContent(TRUE, FALSE, TRUE, FALSE, TRUE)),
      File(EditedStore) }

\* stdout of git branch --show-current; empty on a detached HEAD
BranchOutputs ==
    { sMain \o <<"\n">>, sMaster \o <<"\n">>, sBullseye \o <<"\n">>,
      <<"M", "a", "i", "n", "\n">>, <<"m", "a", "i", "n", "s", "\n">>,
      <<"f", "-", "x", "\n">>, <<>> }

\* stdout of git status --porcelain
StatusOutputs ==
    { <<>>, <<"\n">>, <<" ", "M", " ", "a", "\n">> }

PoolLineChoices ==
    { <<>>, <<" ", " ">>, <<"#", "c">>, <<" ", "#", "d">>,
      <<"f", "i", "x", " ">>, sWip }

PoolFiles ==
    {NoFile} \cup {File(l) : l \in SeqsUpTo(PoolLineChoices, MaxPoolLines)}

\* Math.floor(Date.now() / 1000), as decimal digits
Timestamps == { <<"1", "7">> }

\* results of getRandomString(3)
RandomStrings == { <<"a", "b", "c">>, <<"x", "y", "z">> }

\* what the operator types at 'Branch name:' (nothing typed: the default)
TypedBranchNames ==
    { <<>>, <<"M", "y", " ", "B", "!">>, <<"-", "x">>, <<" ">> }

\* what the operator types at 'Commit message:' (required: never empty)
TypedMessages == { <<"f", "i", "x">>, <<"a", " ", "b">> }

\* stdout of a successful gh pr create
PrOutputs ==
    { <<"g", "/", "p", "/", "7", "\n">>, <<"g", "/", "p", "/", "4", "2", "\n">> }

(* ------------------------------------------------------------------ *)
(* State                                                              *)
(* ------------------------------------------------------------------ *)
VARIABLES
    pc,               \* the statement the run is at; "exited" once the process ended
    exitCode,         \* the process exit code, meaningful when pc = "exited"
    script,           \* the file bun runs: src/index.ts or the variant
    platform,         \* process.platform
    installed,        \* the required tools the shell can find
    configStore,      \* ~/.gun.conf
    config,           \* the toggles loadConfig returns
    warnings,         \* the console.warn of each store line
    missingCommands,  \* checkBinaries
    setupAnswers,     \* answers of the five first-run confirmations
    shell,            \* the shell name ensureAliasExists read, "" before that
    aliasAdded,       \* ensureAliasExists appended the alias line
    readmeMarked,     \* --debug appended '#' to README.md
    cmds,             \* external commands issued, in order, with their exit codes
    prompts,          \* prompts asked, in order, with default and answer
    out,              \* console output, in order
    baseBranch,
    statusOutput,
    isClean,
    isDefaultBranch,
    wipIt,
    pool,             \* commit_messages.txt as getCommitMessage read it
    poolRead,         \* whether getCommitMessage read the pool file
    commitMessage,
    createBranch,
    branchName,
    fixedBranchName,
    createPr,
    enableAutoMerge,
    backToDefault,
    deleteBranch,
    outputPrCreate,   \* stdout of gh pr create
    trimmedOutput,
    prNumber

setupVars  == <<configStore, config, warnings, missingCommands, setupAnswers,
                shell, aliasAdded, readmeMarked>>
repoVars   == <<baseBranch, statusOutput, isClean, isDefaultBranch>>
directVars == <<wipIt, pool, poolRead>>
planVars   == <<createBranch, branchName, fixedBranchName, createPr,
                enableAutoMerge, backToDefault, deleteBranch>>
prVars     == <<outputPrCreate, trimmedOutput, prNumber>>

vars == <<pc, exitCode, script, platform, installed, setupVars, cmds, prompts, out, repoVars,
          directVars, commitMessage, planVars, prVars>>

Init ==
    /\ pc = "loadConfig"
    /\ exitCode = 0
    /\ script = sIndex
    /\ platform \in Platforms
    /\ installed \in Installations
    /\ configStore \in ConfigStores
    /\ config = DefaultConfig
    /\ warnings = <<>>
    /\ missingCommands = <<>>
    /\ setupAnswers = <<>>
    /\ shell = ""
    /\ aliasAdded = FALSE
    /\ readmeMarked = FALSE
    /\ cmds = <<>>
    /\ prompts = <<>>
    /\ out = <<>>
    /\ baseBranch = <<>>
    /\ statusOutput = <<>>
    /\ isClean = FALSE
    /\ isDefaultBranch = FALSE
    /\ wipIt = FALSE
    /\ pool = NoFile
    /\ poolRead = FALSE
    /\ commitMessage = <<>>
    /\ createBranch = FALSE
    /\ branchName = <<>>
    /\ fixedBranchName = <<>>
    /\ createPr = FALSE
    /\ enableAutoMerge = FALSE
    /\ backToDefault = FALSE
    /\ deleteBranch = FALSE
    /\ outputPrCreate = <<>>
    /\ trimmedOutput = <<>>
    /\ prNumber = <<>>

(* ------------------------------------------------------------------ *)
(* Effects shared by the steps                                        *)
(* ------------------------------------------------------------------ *)
\* one external command and the exit code it returned
Command(cmd, arg, code) == [cmd |-> cmd, arg |-> arg, exit |-> code]

\* confirm({ message, default }) answered with a
Confirm(message, dflt, a) ==
    [message |-> message, dflt |-> BoolStr(dflt), answer |-> BoolStr(a)]

\* input({ message, default }) answered with a
Input(message, dflt, a) ==
    [message |-> message, dflt |-> dflt, answer |-> a]

\* process.exit(code), or the end of the script (code 0)
Exit(code) ==
    /\ pc' = "exited"
    /\ exitCode' = code

\* an uncaught exception ends the process with code 1
Throw == Exit(1)

\* Await with the exit code never checked (as under .nothrow())
AwaitNoThrow(code, next) ==
    /\ pc' = next
    /\ UNCHANGED exitCode

\* await $`...`: a non-zero exit code throws, otherwise the script goes on
Await(code, next) ==
    IF code # 0 THEN Throw ELSE /\ pc' = next
                                /\ UNCHANGED exitCode

Goto(next) ==
    /\ pc' = next
    /\ UNCHANGED exitCode

(* ------------------------------------------------------------------ *)
(* loadConfig and first-run setup                                     *)
(* ------------------------------------------------------------------ *)
\* loadConfig, try block: the store is read and parsed; a missing or
\* unreadable store throws into the catch block (first-run setup)
LoadConfig ==
    /\ pc = "loadConfig"
    /\ IF configStore.exists
       THEN /\ config' = ParseConfig(configStore.lines)
            /\ warnings' = ConfigWarnings(configStore.lines)
            /\ Goto("parseArgs")
       ELSE /\ UNCHANGED <<config, warnings>>
            /\ Goto("checkBinaries")
    /\ UNCHANGED <<script, platform, installed, configStore, missingCommands, setupAnswers, shell, aliasAdded,
                   readmeMarked, cmds, prompts, out, repoVars, directVars,
                   commitMessage, planVars, prVars>>

\* the probe checkBinaries runs for one tool
Probe(tool, found) ==
    Command(IF platform = "win32" THEN "where" ELSE "command -v", tool,
            IF found THEN 0 ELSE 1)

\* checkBinaries stopping at the first tool it misses
FirstMissingCommand(found) ==
    LET miss == {i \in 1..Len(requiredCommands) : ~found[i]}
    IN  IF miss = {} THEN <<>>
        ELSE << requiredCommands[CHOOSE i \in miss : \A j \in miss : i <= j] >>

\* the missingCommands list checkBinaries collects over requiredCommands
MissingCommands(found) ==
    FilterSeq(requiredCommands,
        {requiredCommands[i] : i \in {j \in 1..Len(requiredCommands) : ~found[j]}})

\* the exit codes a command of the given tool can return: a tool that is
\* not installed never returns 0
ExitCodesOf(tool) == IF tool \in installed THEN ExitCodes ELSE ExitCodes \ {0}

\* checkBinaries: every required tool is probed, the missing ones are
\* reported together and end the run with code 1
CheckBinaries ==
    /\ pc = "checkBinaries"
    /\ LET found   == [i \in 1..Len(requiredCommands) |->
                            requiredCommands[i] \in installed]
           probes  == [i \in 1..Len(requiredCommands) |->
                            Probe(requiredCommands[i], found[i])]
           missing == MissingCommands(found)
       IN    /\ cmds' = cmds \o probes
             /\ missingCommands' = missing
             /\ IF Len(missing) > 0
                THEN /\ out' = out \o <<"Missing required commands", "Please install">>
                     /\ Exit(1)
                ELSE /\ out' = out \o <<"logo", "Welcome to gun setup">>
                     /\ Goto("setup")
    /\ UNCHANGED <<script, platform, installed, configStore, config, warnings, setupAnswers, shell, aliasAdded,
                   readmeMarked, prompts, repoVars, directVars, commitMessage,
                   planVars, prVars>>

\* the five confirmations of first-run setup, in the order they are asked
setupMessages ==
    << "Do you want to create a PR by default?",
       "Do you want to create funny commit messages?",
       "Do you want to enable automerge at the end?",
       "Do you want to switch back to main after PR created?",
       "Do you want to delete Branch after PR created?" >>

SetupConfirm ==
    /\ pc = "setup"
    /\ Len(setupAnswers) < Len(setupMessages)
    /\ \E a \in BOOLEAN :
         /\ prompts' = Append(prompts,
                Confirm(setupMessages[Len(setupAnswers) + 1], TRUE, a))
         /\ setupAnswers' = Append(setupAnswers, a)
    /\ Goto(IF Len(setupAnswers') = Len(setupMessages) THEN "writeConfig" ELSE "setup")
    /\ UNCHANGED <<script, platform, installed, configStore, config, warnings, missingCommands,
                   shell, aliasAdded, readmeMarked, cmds, out, repoVars, directVars,
                   commitMessage, planVars, prVars>>

\* Bun.write(configFile, configContent); a failed write rejects uncaught
WriteConfig ==
    /\ pc = "writeConfig"
    /\ \E written \in BOOLEAN :
         IF written
         THEN /\ configStore' = File(ConfigContent(setupAnswers[1], setupAnswers[2],
                                   setupAnswers[3], setupAnswers[4], setupAnswers[5]))
              /\ out' = Append(out, "Config file created")
              /\ Goto("ensureAlias")
         ELSE /\ UNCHANGED <<configStore, out>>
              /\ Throw
    /\ UNCHANGED <<script, platform, installed, config, warnings, missingCommands, setupAnswers,
                   shell, aliasAdded, readmeMarked, cmds, prompts, repoVars, directVars,
                   commitMessage, planVars, prVars>>

\* ensureAliasExists('gun', scriptPath), then process.exit(0)
EnsureAliasExists ==
    /\ pc = "ensureAlias"
    /\ \E shellName \in Shells,
          rc \in {"absent", "hasAlias", "noAlias", "unreadable"},
          appended \in BOOLEAN :
         /\ shell' = shellName
         /\ IF shellName \notin {"zsh", "bash"}
            THEN /\ out' = Append(out, "Unsupported shell")
                 /\ UNCHANGED aliasAdded
                 /\ Exit(1)
            ELSE IF rc = "unreadable"
            THEN /\ UNCHANGED <<out, aliasAdded>>
                 /\ Throw
            ELSE IF rc = "hasAlias"
            THEN /\ out' = Append(out, "Alias already exists")
                 /\ UNCHANGED aliasAdded
                 /\ Exit(0)
            ELSE IF appended
            THEN /\ out' = Append(out, "Alias added")
                 /\ aliasAdded' = TRUE
                 /\ Exit(0)
            ELSE /\ UNCHANGED <<out, aliasAdded>>
                 /\ Throw
    /\ UNCHANGED <<script, platform, installed, configStore, config, warnings, missingCommands,
                   setupAnswers, readmeMarked, cmds, prompts, repoVars, directVars,
                   commitMessage, planVars, prVars>>

(* ------------------------------------------------------------------ *)
(* Arguments and repository state                                     *)
(* ------------------------------------------------------------------ *)
\* parseArgs (strict) and the --debug marker written to README.md
ParseArgs ==
    /\ pc = "parseArgs"
    /\ \E known \in BOOLEAN, debug \in BOOLEAN, readme \in BOOLEAN :
         IF ~known \/ (debug /\ ~readme)
         THEN /\ UNCHANGED readmeMarked
              /\ Throw
         ELSE /\ readmeMarked' = debug
              /\ Goto("queryBranch")
    /\ UNCHANGED <<script, platform, installed, configStore, config, warnings, missingCommands,
                   setupAnswers, shell, aliasAdded, cmds, prompts, out, repoVars,
                   directVars, commitMessage, planVars, prVars>>

\* git branch --show-current, trimmed into baseBranch
QueryBranch ==
    /\ pc = "queryBranch"
    /\ \E code \in ExitCodesOf(tGit), o \in BranchOutputs :
         /\ cmds' = Append(cmds, Command("git branch --show-current", <<>>, code))
         /\ baseBranch' = IF code = 0 THEN Trim(o) ELSE baseBranch
         /\ Await(code, "queryStatus")
    /\ UNCHANGED <<script, platform, installed, setupVars, prompts, out, statusOutput, isClean,
                   isDefaultBranch, directVars, commitMessage, planVars, prVars>>

\* IsCleanStatus without the trim
IsCleanStatusNoTrim(o) == o = <<>>

\* statusOutput.trim() === ''
IsCleanStatus(o) == Trim(o) = <<>>

\* git status --porcelain and the entry guard
QueryStatus ==
    /\ pc = "queryStatus"
    /\ \E code \in ExitCodesOf(tGit), o \in StatusOutputs :
         /\ cmds' = Append(cmds, Command("git status --porcelain", <<>>, code))
         /\ IF code # 0
            THEN /\ UNCHANGED <<statusOutput, isClean, out>>
                 /\ Throw
            ELSE /\ statusOutput' = o
                 /\ isClean' = IsCleanStatus(o)
                 /\ IF isClean'
                    THEN /\ out' = Append(out, "Nothing to commit")
                         /\ Exit(0)
                    ELSE /\ UNCHANGED out
                         /\ Goto("classify")
    /\ UNCHANGED <<script, platform, installed, setupVars, prompts, baseBranch, isDefaultBranch,
                   directVars, commitMessage, planVars, prVars>>

\* IsDefault comparing case-insensitively
IsDefaultIgnoreCase(branch) ==
    [i \in 1..Len(branch) |-> ToLowerChar(branch[i])] \in defaultBranches

\* defaultBranches.includes(branch)
IsDefault(branch) == branch \in defaultBranches

\* const isDefaultBranch = defaultBranches.includes(baseBranch)
Classify ==
    /\ pc = "classify"
    /\ isDefaultBranch' = IsDefault(baseBranch)
    /\ Goto("ifNotDefault")
    /\ UNCHANGED <<script, platform, installed, setupVars, cmds, prompts, out, baseBranch, statusOutput,
                   isClean, directVars, commitMessage, planVars, prVars>>

(* ------------------------------------------------------------------ *)
(* Direct-commit path: the current branch is not a default branch     *)
(* ------------------------------------------------------------------ *)
\* if (!isDefaultBranch) { ... }
IfNotDefault ==
    /\ pc = "ifNotDefault"
    /\ Goto(IF ~isDefaultBranch THEN "wipPrompt" ELSE "ifDefault")
    /\ UNCHANGED <<script, platform, installed, setupVars, cmds, prompts, out, repoVars, directVars,
                   commitMessage, planVars, prVars>>

\* const wipIt = await confirm({ message: 'wip?', default: true })
WipPrompt ==
    /\ pc = "wipPrompt"
    /\ \E a \in BOOLEAN :
         /\ prompts' = Append(prompts, Confirm("wip?", TRUE, a))
         /\ wipIt' = a
    /\ Goto("getCommitMessage")
    /\ UNCHANGED <<script, platform, installed, setupVars, cmds, out, repoVars, pool, poolRead,
                   commitMessage, planVars, prVars>>

\* getCommitMessage with the funnyCommit test inverted
getCommitMessageInverted(funnyCommit, p) ==
    IF funnyCommit
    THEN {[ok |-> TRUE, msg |-> sWip, read |-> FALSE]}
    ELSE IF ~p.exists
    THEN {[ok |-> FALSE, msg |-> <<>>, read |-> TRUE]}
    ELSE LET commitMessageFileLines == EligibleLines(p.lines)
         IN  IF commitMessageFileLines = <<>>
             THEN {[ok |-> FALSE, msg |-> <<>>, read |-> TRUE]}
             ELSE {[ok |-> TRUE, msg |-> Trim(commitMessageFileLines[i]), read |-> TRUE] :
                      i \in 1..Len(commitMessageFileLines)}

\* getCommitMessage falling back to 'wip' when the pool cannot be read
getCommitMessageFallback(funnyCommit, p) ==
    IF ~funnyCommit
    THEN {[ok |-> TRUE, msg |-> sWip, read |-> FALSE]}
    ELSE IF ~p.exists
    THEN {[ok |-> TRUE, msg |-> sWip, read |-> TRUE]}
    ELSE LET commitMessageFileLines == EligibleLines(p.lines)
         IN  IF commitMessageFileLines = <<>>
             THEN {[ok |-> FALSE, msg |-> <<>>, read |-> TRUE]}
             ELSE {[ok |-> TRUE, msg |-> Trim(commitMessageFileLines[i]), read |-> TRUE] :
                      i \in 1..Len(commitMessageFileLines)}

\* getCommitMessage(funnyCommit) with the pool file p on disk: the set of
\* its possible results.  ok = FALSE is an uncaught exception: readFileSync
\* on a missing file, or .trim() of undefined when no line is eligible
getCommitMessage(funnyCommit, p) ==
    IF ~funnyCommit
    THEN {[ok |-> TRUE, msg |-> sWip, read |-> FALSE]}
    ELSE IF ~p.exists
    THEN {[ok |-> FALSE, msg |-> <<>>, read |-> TRUE]}
    ELSE LET commitMessageFileLines == EligibleLines(p.lines)
         IN  IF commitMessageFileLines = <<>>
             THEN {[ok |-> FALSE, msg |-> <<>>, read |-> TRUE]}
             ELSE {[ok |-> TRUE, msg |-> Trim(commitMessageFileLines[i]), read |-> TRUE] :
                      i \in 1..Len(commitMessageFileLines)}

\* const commitMessage = await getCommitMessage(config.FUNNY_COMMIT)
GetCommitMessageFrom(p) ==
    /\ pc = "getCommitMessage"
    /\ \E r \in getCommitMessage(config[kFunnyCommit], p) :
            /\ pool' = IF r.read THEN p ELSE pool
            /\ poolRead' = r.read
            /\ commitMessage' = r.msg
            /\ IF r.ok THEN Goto("ifWipIt") ELSE Throw
    /\ UNCHANGED <<script, platform, installed, setupVars, cmds, prompts, out, repoVars, wipIt,
                   planVars, prVars>>

\* the same with commit_messages.txt being any of the pool files
GetCommitMessage == \E p \in PoolFiles : GetCommitMessageFrom(p)

\* if (wipIt) { ... } not taken
DirectSkip ==
    /\ pc = "ifWipIt"
    /\ ~wipIt
    /\ Goto("ifDefault")
    /\ UNCHANGED <<script, platform, installed, setupVars, cmds, prompts, out, repoVars, directVars,
                   commitMessage, planVars, prVars>>

\* await $`git add .`.quiet()
DirectAdd ==
    /\ pc = "ifWipIt"
    /\ wipIt
    /\ \E code \in ExitCodesOf(tGit) :
         /\ cmds' = Append(cmds, Command("git add .", <<>>, code))
         /\ out' = IF code = 0 THEN Append(out, "Staged all changes") ELSE out
         /\ Await(code, "directCommit")
    /\ UNCHANGED <<script, platform, installed, setupVars, prompts, repoVars, directVars,
                   commitMessage, planVars, prVars>>

\* await $`git commit -m "${commitMessage}"`.quiet()
DirectCommit ==
    /\ pc = "directCommit"
    /\ \E code \in ExitCodesOf(tGit) :
         /\ cmds' = Append(cmds, Command("git commit -m", commitMessage, code))
         /\ out' = IF code = 0 THEN Append(out, "Commit message") ELSE out
         /\ Await(code, "directPush")
    /\ UNCHANGED <<script, platform, installed, setupVars, prompts, repoVars, directVars,
                   commitMessage, planVars, prVars>>

\* the direct-commit push setting an upstream
DirectPushUpstream(code) == Command("git push -u origin", baseBranch, code)

\* the push of the direct-commit path: no -u, no branch argument
DirectPushCommand(code) == Command("git push", <<>>, code)

\* await $`git push`.quiet()
DirectPush ==
    /\ pc = "directPush"
    /\ \E code \in ExitCodesOf(tGit) :
         /\ cmds' = Append(cmds, DirectPushCommand(code))
         /\ out' = IF code = 0 THEN Append(out, "Pushed changes to remote") ELSE out
         /\ Await(code, "ifDefault")
    /\ UNCHANGED <<script, platform, installed, setupVars, prompts, repoVars, directVars,
                   commitMessage, planVars, prVars>>

(* ------------------------------------------------------------------ *)
(* Feature-branch path: the current branch is a default branch        *)
(* ------------------------------------------------------------------ *)
\* if (isDefaultBranch) { ... }; otherwise the script ends
IfDefault ==
    /\ pc = "ifDefault"
    /\ IF isDefaultBranch THEN Goto("createBranchPrompt") ELSE Exit(0)
    /\ UNCHANGED <<script, platform, installed, setupVars, cmds, prompts, out, repoVars, directVars,
                   commitMessage, planVars, prVars>>

\* the branch block entered whatever the answer was
AfterCreateBranchEntersBlock(a) == Goto("branchNamePrompt")

\* if (createBranch) { ... }, the end of the script otherwise
AfterCreateBranch(a) == IF a THEN Goto("branchNamePrompt") ELSE Exit(0)

\* const createBranch = await confirm({ message: 'Create Branch?', default: true })
CreateBranchPrompt ==
    /\ pc = "createBranchPrompt"
    /\ \E a \in BOOLEAN :
         /\ prompts' = Append(prompts, Confirm("Create Branch?", TRUE, a))
         /\ createBranch' = a
         /\ AfterCreateBranch(a)
    /\ UNCHANGED <<script, platform, installed, setupVars, cmds, out, repoVars, directVars,
                   commitMessage, branchName, fixedBranchName, createPr,
                   enableAutoMerge, backToDefault, deleteBranch, prVars>>

\* the 'Branch name:' input with its timestamp-random default, and
\* fixedBranchName computed from the answer
BranchNameInput(typedNames) ==
    /\ pc = "branchNamePrompt"
    /\ \E timestamp \in Timestamps, randomChars \in RandomStrings,
          typed \in typedNames :
         LET dflt   == timestamp \o <<"-">> \o randomChars
             answer == IF typed = <<>> THEN dflt ELSE typed
         IN  /\ prompts' = Append(prompts, Input("Branch name:", dflt, answer))
             /\ branchName' = answer
             /\ fixedBranchName' = Sanitize(answer)
    /\ Goto("commitMessagePrompt")
    /\ UNCHANGED <<script, platform, installed, setupVars, cmds, out, repoVars, directVars,
                   commitMessage, createBranch, createPr, enableAutoMerge,
                   backToDefault, deleteBranch, prVars>>

BranchNamePrompt == BranchNameInput(TypedBranchNames)

\* const commitMessage = await input({ message: 'Commit message:', required: true })
CommitMessagePrompt ==
    /\ pc = "commitMessagePrompt"
    /\ \E typed \in TypedMessages :
         /\ prompts' = Append(prompts, Input("Commit message:", <<>>, typed))
         /\ commitMessage' = typed
    /\ Goto("createPrPrompt")
    /\ UNCHANGED <<script, platform, installed, setupVars, cmds, out, repoVars, directVars,
                   planVars, prVars>>

\* a confirmation whose default is always yes
ToggleDefaultYes(key) == TRUE

\* default: config.<KEY> of the four confirmations of the plan
ToggleDefault(key) == config[key]

\* const createPr = await confirm({ message: 'Create PR?', default: config.CREATE_PR })
CreatePrPrompt ==
    /\ pc = "createPrPrompt"
    /\ \E a \in BOOLEAN :
         /\ prompts' = Append(prompts, Confirm("Create PR?", ToggleDefault(kCreatePr), a))
         /\ createPr' = a
         /\ Goto(IF a THEN "autoMergePrompt" ELSE "backToDefaultPrompt")
    /\ UNCHANGED <<script, platform, installed, setupVars, cmds, out, repoVars, directVars,
                   commitMessage, createBranch, branchName, fixedBranchName,
                   enableAutoMerge, backToDefault, deleteBranch, prVars>>

\* enableAutoMerge = await confirm({ message: 'Enable auto merge?', ... })
AutoMergePrompt ==
    /\ pc = "autoMergePrompt"
    /\ \E a \in BOOLEAN :
         /\ prompts' = Append(prompts, Confirm("Enable auto merge?", ToggleDefault(kAutoMerge), a))
         /\ enableAutoMerge' = a
    /\ Goto("backToDefaultPrompt")
    /\ UNCHANGED <<script, platform, installed, setupVars, cmds, out, repoVars, directVars,
                   commitMessage, createBranch, branchName, fixedBranchName,
                   createPr, backToDefault, deleteBranch, prVars>>

\* the delete-branch confirmation asked whatever the answer was
AfterBackToDefaultAlwaysAsks(a) == "deleteBranchPrompt"

\* if (backToDefault) { deleteBranch = await confirm(...) }
AfterBackToDefault(a) == IF a THEN "deleteBranchPrompt" ELSE "checkoutNew"

\* const backToDefault = await confirm({ message: `Back to ${baseBranch}?`, ... })
BackToDefaultPrompt ==
    /\ pc = "backToDefaultPrompt"
    /\ \E a \in BOOLEAN :
         /\ prompts' = Append(prompts,
                Confirm("Back to ${baseBranch}?", ToggleDefault(kBackToDefault), a))
         /\ backToDefault' = a
         /\ Goto(AfterBackToDefault(a))
    /\ UNCHANGED <<script, platform, installed, setupVars, cmds, out, repoVars, directVars,
                   commitMessage, createBranch, branchName, fixedBranchName,
                   createPr, enableAutoMerge, deleteBranch, prVars>>

\* deleteBranch = await confirm({ message: 'Delete branch?', ... })
DeleteBranchPrompt ==
    /\ pc = "deleteBranchPrompt"
    /\ \E a \in BOOLEAN :
         /\ prompts' = Append(prompts, Confirm("Delete branch?", ToggleDefault(kDeleteBranch), a))
         /\ deleteBranch' = a
    /\ Goto("checkoutNew")
    /\ UNCHANGED <<script, platform, installed, setupVars, cmds, out, repoVars, directVars,
                   commitMessage, createBranch, branchName, fixedBranchName,
                   createPr, enableAutoMerge, backToDefault, prVars>>

\* await $`git checkout -b ${fixedBranchName}`.quiet()
CheckoutNew ==
    /\ pc = "checkoutNew"
    /\ \E code \in ExitCodesOf(tGit) :
         /\ cmds' = Append(cmds, Command("git checkout -b", fixedBranchName, code))
         /\ out' = IF code = 0 THEN Append(out, "Created and checked out to new branch")
                   ELSE out
         /\ Await(code, "featureAdd")
    /\ UNCHANGED <<script, platform, installed, setupVars, prompts, repoVars, directVars,
                   commitMessage, planVars, prVars>>

\* await $`git add .`.quiet()
FeatureAdd ==
    /\ pc = "featureAdd"
    /\ \E code \in ExitCodesOf(tGit) :
         /\ cmds' = Append(cmds, Command("git add .", <<>>, code))
         /\ out' = IF code = 0 THEN Append(out, "Staged all changes") ELSE out
         /\ Await(code, "featureCommit")
    /\ UNCHANGED <<script, platform, installed, setupVars, prompts, repoVars, directVars,
                   commitMessage, planVars, prVars>>

\* await $`git commit -m "${commitMessage}"`.quiet()
FeatureCommit ==
    /\ pc = "featureCommit"
    /\ \E code \in ExitCodesOf(tGit) :
         /\ cmds' = Append(cmds, Command("git commit -m", commitMessage, code))
         /\ out' = IF code = 0 THEN Append(out, "Commit message") ELSE out
         /\ Await(code, "featurePush")
    /\ UNCHANGED <<script, platform, installed, setupVars, prompts, repoVars, directVars,
                   commitMessage, planVars, prVars>>

\* the feature-branch push naming the branch as typed, not as sanitized
FeaturePushRawName(code) == Command("git push -u origin", branchName, code)

\* the push of the feature-branch path
FeaturePushCommand(code) == Command("git push -u origin", fixedBranchName, code)

\* await $`git push -u origin ${fixedBranchName}`.quiet(), then if (createPr)
FeaturePush ==
    /\ pc = "featurePush"
    /\ \E code \in ExitCodesOf(tGit) :
         /\ cmds' = Append(cmds, FeaturePushCommand(code))
         /\ out' = IF code = 0 THEN Append(out, "Pushed branch to remote") ELSE out
         /\ Await(code, IF createPr THEN "prCreate" ELSE "ifBackToDefault")
    /\ UNCHANGED <<script, platform, installed, setupVars, prompts, repoVars, directVars,
                   commitMessage, planVars, prVars>>

\* a failed gh pr create that is reported but does not end the run
PrCreateFailedGoesOn ==
    /\ out' = out \o <<"Could not create PR", "PR create stdout", "PR create stderr">>
    /\ UNCHANGED <<outputPrCreate, trimmedOutput>>
    /\ Goto("ifBackToDefault")

\* what follows a gh pr create that returned a non-zero exit code
PrCreateFailed ==
    /\ out' = out \o <<"Could not create PR", "PR create stdout", "PR create stderr">>
    /\ UNCHANGED <<outputPrCreate, trimmedOutput>>
    /\ Exit(1)

\* gh pr create targeting the branch checked out when it runs
PrCreateOntoCurrent(code) == Command("gh pr create -f -B", fixedBranchName, code)

\* gh pr create -f -B ${baseBranch}
PrCreateCommand(code) == Command("gh pr create -f -B", baseBranch, code)

\* gh pr create -f -B ${baseBranch} with nothrow, and the exit-code check
PrCreate ==
    /\ pc = "prCreate"
    /\ \E code \in ExitCodesOf(tGh), o \in PrOutputs :
         /\ cmds' = Append(cmds, PrCreateCommand(code))
         /\ IF code # 0
            THEN PrCreateFailed
            ELSE /\ outputPrCreate' = o
                 /\ trimmedOutput' = Trim(o)
                 /\ out' = Append(out, "Created PR")
                 /\ Goto("copyToClipboard")
    /\ UNCHANGED <<script, platform, installed, setupVars, prompts, repoVars, directVars,
                   commitMessage, planVars, prNumber>>

\* the clipboard tool copyToClipboard pipes into, by platform
ClipboardTool ==
    [win32 |-> "clip", linux |-> "xclip -i -selection c", darwin |-> "pbcopy"]

\* the PR number taken to be the whole output, without split('/').pop()
PrNumberWhole(text) == Trim(RemoveNewlines(text))

\* outputPrCreate.text().toString().replace(/\n/g, '').trim().split('/').pop()
PrNumberOf(text) ==
    LET parts == SplitOn(Trim(RemoveNewlines(text)), "/")
    IN  parts[Len(parts)]

\* the merge decided by the stored toggle instead of the answer
AutoMergeConfigured == config[kAutoMerge]

\* if (enableAutoMerge)
AutoMergeWanted == enableAutoMerge

\* copyToClipboard(trimmedOutput): nothrow, the exit code is ignored; no
\* command at all on another platform.  Then prNumber and if (enableAutoMerge)
CopyToClipboard ==
    /\ pc = "copyToClipboard"
    /\ \E code \in ExitCodes :
         cmds' = IF platform \in DOMAIN ClipboardTool
                 THEN Append(cmds, Command(ClipboardTool[platform], trimmedOutput, code))
                 ELSE cmds
    /\ out' = Append(out, "Copied PR URL to clipboard")
    /\ prNumber' = PrNumberOf(outputPrCreate)
    /\ Goto(IF AutoMergeWanted THEN "prMerge" ELSE "ifBackToDefault")
    /\ UNCHANGED <<script, platform, installed, setupVars, prompts, repoVars, directVars,
                   commitMessage, planVars, outputPrCreate, trimmedOutput>>

\* gh pr merge awaited without nothrow: a non-zero exit code throws
AfterPrMergeThrows(code) ==
    /\ out' = IF code = 0 THEN Append(out, "Enabled auto-merge") ELSE out
    /\ Await(code, "ifBackToDefault")

\* what follows gh pr merge: nothrow, both outcomes are only reported
AfterPrMerge(code) ==
    /\ out' = IF code = 0 THEN Append(out, "Enabled auto-merge")
              ELSE out \o <<"Could not enable auto-merge", "Auto-merge stdout",
                            "Auto-merge stderr">>
    /\ Goto("ifBackToDefault")

\* gh pr merge --auto --squash ${prNumber}
PrMerge ==
    /\ pc = "prMerge"
    /\ \E code \in ExitCodesOf(tGh) :
         /\ cmds' = Append(cmds, Command("gh pr merge --auto --squash", prNumber, code))
         /\ AfterPrMerge(code)
    /\ UNCHANGED <<script, platform, installed, setupVars, prompts, repoVars, directVars,
                   commitMessage, planVars, prVars>>

\* if (backToDefault) { ... } not taken
CheckoutBaseSkip ==
    /\ pc = "ifBackToDefault"
    /\ ~backToDefault
    /\ Goto("ifDeleteBranch")
    /\ UNCHANGED <<script, platform, installed, setupVars, cmds, prompts, out, repoVars, directVars,
                   commitMessage, planVars, prVars>>

\* await $`git checkout ${baseBranch}`.quiet().text()
CheckoutBase ==
    /\ pc = "ifBackToDefault"
    /\ backToDefault
    /\ \E code \in ExitCodesOf(tGit) :
         /\ cmds' = Append(cmds, Command("git checkout", baseBranch, code))
         /\ Await(code, "ifDeleteBranch")
    /\ out' = Append(out, "Back to")
    /\ UNCHANGED <<script, platform, installed, setupVars, prompts, repoVars, directVars,
                   commitMessage, planVars, prVars>>

\* if (deleteBranch) { ... } not taken: the script ends
DeleteBranchSkip ==
    /\ pc = "ifDeleteBranch"
    /\ ~deleteBranch
    /\ Exit(0)
    /\ UNCHANGED <<script, platform, installed, setupVars, cmds, prompts, out, repoVars, directVars,
                   commitMessage, planVars, prVars>>

\* await $`git branch -d ${fixedBranchName}`.quiet(); then the script ends
DeleteBranch ==
    /\ pc = "ifDeleteBranch"
    /\ deleteBranch
    /\ \E code \in ExitCodesOf(tGit) :
         /\ cmds' = Append(cmds, Command("git branch -d", fixedBranchName, code))
         /\ out' = IF code = 0 THEN Append(out, "Deleted branch") ELSE out
         /\ IF code # 0 THEN Throw ELSE Exit(0)
    /\ UNCHANGED <<script, platform, installed, setupVars, prompts, repoVars, directVars,
                   commitMessage, planVars, prVars>>

(* ------------------------------------------------------------------ *)
(* Specification                                                      *)
(* ------------------------------------------------------------------ *)
Next ==
    \/ LoadConfig
    \/ CheckBinaries
    \/ SetupConfirm
    \/ WriteConfig
    \/ EnsureAliasExists
    \/ ParseArgs
    \/ QueryBranch
    \/ QueryStatus
    \/ Classify
    \/ IfNotDefault
    \/ WipPrompt
    \/ GetCommitMessage
    \/ DirectSkip
    \/ DirectAdd
    \/ DirectCommit
    \/ DirectPush
    \/ IfDefault
    \/ CreateBranchPrompt
    \/ BranchNamePrompt
    \/ CommitMessagePrompt
    \/ CreatePrPrompt
    \/ AutoMergePrompt
    \/ BackToDefaultPrompt
    \/ DeleteBranchPrompt
    \/ CheckoutNew
    \/ FeatureAdd
    \/ FeatureCommit
    \/ FeaturePush
    \/ PrCreate
    \/ CopyToClipboard
    \/ PrMerge
    \/ CheckoutBaseSkip
    \/ CheckoutBase
    \/ DeleteBranchSkip
    \/ DeleteBranch

Spec == Init /\ [][Next]_vars

(* ------------------------------------------------------------------ *)
(* Vocabulary of the properties                                       *)
(* ------------------------------------------------------------------ *)
Exited == pc = "exited"

\* positions of cmds holding a command with one of the given names
Issued(names) == {i \in 1..Len(cmds) : cmds[i].cmd \in names}

Asked(message) == \E i \in 1..Len(prompts) : prompts[i].message = message

Answered(message, a) ==
    \E i \in 1..Len(prompts) :
        prompts[i].message = message /\ prompts[i].answer = BoolStr(a)

QueryCommands == {"git branch --show-current", "git status --porcelain"}

ClipboardCommands == {"clip", "xclip -i -selection c", "pbcopy"}

GhCommands == {"gh pr create -f -B", "gh pr merge --auto --squash"}

\* commands that change the repository, the remote or the forge
MutatingCommands ==
    { "git add .", "git commit -m", "git push", "git push -u origin",
      "git checkout -b", "git checkout", "git branch -d" } \cup GhCommands

\* the commands of the main sequence, whose failure is not handled
MainSequence == MutatingCommands \ GhCommands

\* git status --porcelain returned its output
StatusCaptured ==
    \E i \in 1..Len(cmds) : cmds[i].cmd = "git status --porcelain" /\ cmds[i].exit = 0

\* the commands issued after the two repository queries
Workflow == SubSeq(cmds, 3, Len(cmds))

AllSucceeded == \A i \in 1..Len(cmds) : cmds[i].exit = 0

(* ------------------------------------------------------------------ *)
(* C1                                                                 *)
(* ------------------------------------------------------------------ *)
\* C1: whenever git status --porcelain returned output that is empty after
\* trimming, whatever the branch and the configuration, the run has printed
\* 'Nothing to commit' and exited with code 0, has asked no prompt and has
\* issued no add / commit / push / checkout / branch -d / gh command.
C1_EntryGuard ==
    (StatusCaptured /\ Trim(statusOutput) = <<>>) =>
        /\ Exited
        /\ exitCode = 0
        /\ out # <<>> /\ out[Len(out)] = "Nothing to commit"
        /\ prompts = <<>>
        /\ Issued(MutatingCommands) = {}

\* a clean run on a default branch whose status output was a lone newline
C1_Witness ==
    /\ Exited
    /\ StatusCaptured
    /\ statusOutput = <<"\n">>
    /\ baseBranch = sMain
    /\ config[kCreatePr] = FALSE

(* ------------------------------------------------------------------ *)
(* C2                                                                 *)
(* ------------------------------------------------------------------ *)
\* C2: when gh pr create returned a non-zero exit code, the run has exited
\* with a non-zero code, gh pr create is the last command it issued, and it
\* issued no gh pr merge, no git checkout <base>, no git branch -d and no
\* clipboard command, whatever was answered for auto-merge, return-to-base
\* and delete-branch.
C2_PrCreateFailureIsFatal ==
    \A i \in Issued({"gh pr create -f -B"}) :
        cmds[i].exit # 0 =>
            /\ Exited
            /\ exitCode # 0
            /\ i = Len(cmds)
            /\ Issued({"gh pr merge --auto --squash", "git checkout", "git branch -d"}
                      \cup ClipboardCommands) = {}

\* PR creation failed although all three post-actions had been selected
C2_Witness ==
    /\ Exited
    /\ cmds # <<>>
    /\ cmds[Len(cmds)].cmd = "gh pr create -f -B"
    /\ cmds[Len(cmds)].exit # 0
    /\ enableAutoMerge /\ backToDefault /\ deleteBranch

(* ------------------------------------------------------------------ *)
(* C3                                                                 *)
(* ------------------------------------------------------------------ *)
\* C3: a run that has ended after gh pr merge returned a non-zero exit code
\* issued, right after the merge, git checkout <base> if return-to-base was
\* selected, then git branch -d <sanitized name> if delete-branch was
\* selected and the checkout succeeded, and it ended with exit code 0 if
\* every command after the merge succeeded.
C3_MergeFailureNotFatal ==
    \A i \in Issued({"gh pr merge --auto --squash"}) :
        (cmds[i].exit # 0 /\ Exited) =>
            /\ backToDefault =>
                  /\ Len(cmds) > i
                  /\ cmds[i + 1].cmd = "git checkout"
                  /\ cmds[i + 1].arg = baseBranch
            /\ (deleteBranch /\ Len(cmds) > i /\ cmds[i + 1].exit = 0) =>
                  /\ Len(cmds) = i + 2
                  /\ cmds[i + 2].cmd = "git branch -d"
                  /\ cmds[i + 2].arg = fixedBranchName
            /\ (\A j \in (i + 1)..Len(cmds) : cmds[j].exit = 0) => exitCode = 0

\* merge failed, then checkout and deletion ran and the run exited 0
C3_Witness ==
    /\ Exited
    /\ exitCode = 0
    /\ \E i \in Issued({"gh pr merge --auto --squash"}) :
          /\ cmds[i].exit # 0
          /\ Len(cmds) = i + 2
          /\ cmds[i + 2].cmd = "git branch -d"

(* ------------------------------------------------------------------ *)
(* C4                                                                 *)
(* ------------------------------------------------------------------ *)
\* the four commands of the feature-branch path, in the order of the spec
FeatureSequence ==
    << [cmd |-> "git checkout -b", arg |-> Sanitize(branchName)],
       [cmd |-> "git add .", arg |-> <<>>],
       [cmd |-> "git commit -m", arg |-> commitMessage],
       [cmd |-> "git push -u origin", arg |-> Sanitize(branchName)] >>

\* C4: once 'Create Branch?' was accepted, the k-th command after the
\* repository queries is the k-th of checkout -b <name>, add ., commit -m
\* <message>, push -u origin <name> (k <= 4), with <name> the sanitized
\* answer of 'Branch name:' both times; a command is issued only when the
\* one before it returned 0; none of the four is issued again later; and
\* when create-PR was declined no gh command is issued.
C4_FeatureOrder ==
    Answered("Create Branch?", TRUE) =>
        /\ \A k \in 1..Len(Workflow) :
              /\ k <= Len(FeatureSequence) =>
                    /\ Workflow[k].cmd = FeatureSequence[k].cmd
                    /\ Workflow[k].arg = FeatureSequence[k].arg
              /\ (1 < k /\ k <= Len(FeatureSequence)) => Workflow[k - 1].exit = 0
              /\ k > Len(FeatureSequence) =>
                    Workflow[k].cmd \notin
                        {FeatureSequence[n].cmd : n \in 1..Len(FeatureSequence)}
        /\ Answered("Create PR?", FALSE) => Issued(GhCommands) = {}

\* branch 'My B!' created and pushed, PR declined, run over
C4_Witness ==
    /\ Exited
    /\ exitCode = 0
    /\ branchName = <<"M", "y", " ", "B", "!">>
    /\ fixedBranchName = <<"m", "y", "-", "b", "-">>
    /\ Answered("Create PR?", FALSE)
    /\ Len(Workflow) >= 4
    /\ Workflow[4].exit = 0

(* ------------------------------------------------------------------ *)
(* C5                                                                 *)
(* ------------------------------------------------------------------ *)
\* C5: in both paths, a command of the main sequence (checkout -b, add,
\* commit, push, checkout <base>, branch -d) that returned a non-zero exit
\* code is the last external command of the run (so nothing later and no
\* compensating command is issued), and the run has ended with a non-zero
\* exit code.
C5_FailureStopsRun ==
    \A i \in Issued(MainSequence) :
        cmds[i].exit # 0 =>
            /\ i = Len(cmds)
            /\ Exited
            /\ exitCode # 0

\* the return-to-base checkout failed after a PR had been created
C5_Witness ==
    /\ Exited
    /\ Len(cmds) > 1
    /\ cmds[Len(cmds)].cmd = "git checkout"
    /\ cmds[Len(cmds)].exit # 0
    /\ Issued({"gh pr create -f -B"}) # {}
    /\ deleteBranch

(* ------------------------------------------------------------------ *)
(* C6                                                                 *)
(* ------------------------------------------------------------------ *)
\* C6: in the direct-commit path, a run in which the operator declined
\* 'wip?' ends with exit code 0 and issues no mutating command, for every
\* value of FUNNY_COMMIT and every state of the message pool file.
C6_DeclineIsSuccess ==
    (Answered("wip?", FALSE) /\ Exited) =>
        /\ exitCode = 0
        /\ Issued(MutatingCommands) = {}

\* the claim of C6 fails on the code: getCommitMessage runs before wipIt
\* is tested, so with FUNNY_COMMIT on and no readable (or no eligible)
\* pool line the run throws although the operator declined.

(* ------------------------------------------------------------------ *)
(* C7                                                                 *)
(* ------------------------------------------------------------------ *)
\* the three commands of the direct-commit path
DirectSequence ==
    << Command("git add .", <<>>, 0),
       Command("git commit -m", commitMessage, 0),
       Command("git push", <<>>, 0) >>

\* commands the direct-commit path must never issue
NotOnDirectPath ==
    { "git checkout -b", "git checkout", "git branch -d", "git push -u origin" }
        \cup GhCommands

\* getCommitMessage returned a message
MessageObtained ==
    \/ ~poolRead
    \/ pool.exists /\ EligibleLines(pool.lines) # <<>>

\* C7 as stated: a run in which the operator confirmed 'wip?' and every
\* command issued returned 0 has issued exactly add ., commit -m <message>,
\* push (no -u, no branch) in that order and exited 0; no checkout,
\* branch -d or gh command is ever issued on the direct-commit path.
C7_DirectSequence_AsStated ==
    /\ (Answered("wip?", TRUE) /\ Exited /\ AllSucceeded) =>
          /\ Workflow = DirectSequence
          /\ exitCode = 0
    /\ Asked("wip?") => Issued(NotOnDirectPath) = {}

\* C7 as amended: a run in which the operator confirmed 'wip?',
\* getCommitMessage returned a message and every command issued returned 0
\* has issued exactly add ., commit -m <message>, push (no -u, no branch)
\* in that order and exited 0; no checkout, branch -d or gh command is ever
\* issued on the direct-commit path.
C7_DirectSequence ==
    /\ (Answered("wip?", TRUE) /\ MessageObtained /\ Exited /\ AllSucceeded) =>
          /\ Workflow = DirectSequence
          /\ exitCode = 0
    /\ Asked("wip?") => Issued(NotOnDirectPath) = {}

\* wip confirmed on branch f-x, message drawn from the pool, run over
C7_Witness ==
    /\ Exited
    /\ exitCode = 0
    /\ Answered("wip?", TRUE)
    /\ poolRead
    /\ baseBranch = <<"f", "-", "x">>
    /\ Len(cmds) = 5

(* ------------------------------------------------------------------ *)
(* C8                                                                 *)
(* ------------------------------------------------------------------ *)
\* C8: in the direct-commit path with FUNNY_COMMIT off, every git commit
\* issued carries exactly the message 'wip', and the pool file is never
\* read.
C8_WipMessage ==
    (Asked("wip?") /\ ~config[kFunnyCommit]) =>
        /\ ~poolRead
        /\ \A i \in Issued({"git commit -m"}) : cmds[i].arg = <<"w", "i", "p">>
        /\ pc \in {"ifWipIt", "directCommit", "directPush"} =>
              commitMessage = <<"w", "i", "p">>

\* a commit was issued on the direct path with FUNNY_COMMIT off
C8_Witness ==
    /\ Asked("wip?")
    /\ ~config[kFunnyCommit]
    /\ Issued({"git commit -m"}) # {}
    /\ Exited

(* ------------------------------------------------------------------ *)
(* C9                                                                 *)
(* ------------------------------------------------------------------ *)
\* C9: in the direct-commit path with FUNNY_COMMIT on, once the pool file
\* was found unreadable the run has exited with a non-zero code, no git
\* add / commit / push was issued, and the commit message is not 'wip'.
C9_PoolFailureIsFatal ==
    (Asked("wip?") /\ config[kFunnyCommit] /\ poolRead /\ ~pool.exists) =>
        /\ Exited
        /\ exitCode # 0
        /\ Issued({"git add .", "git commit -m", "git push", "git push -u origin"}) = {}
        /\ commitMessage # <<"w", "i", "p">>

\* the operator confirmed wip and the pool file could not be read
C9_Witness ==
    /\ Answered("wip?", TRUE)
    /\ config[kFunnyCommit]
    /\ poolRead
    /\ ~pool.exists
    /\ Exited

(* ------------------------------------------------------------------ *)
(* C10                                                                *)
(* ------------------------------------------------------------------ *)
\* the three default branch names, written out
MainMasterBullseye ==
    { <<"m", "a", "i", "n">>, <<"m", "a", "s", "t", "e", "r">>,
      <<"b", "u", "l", "l", "s", "e", "y", "e">> }

DirectPositions ==
    {"wipPrompt", "getCommitMessage", "ifWipIt", "directCommit", "directPush"}

FeaturePositions ==
    { "createBranchPrompt", "branchNamePrompt", "commitMessagePrompt",
      "createPrPrompt", "autoMergePrompt", "backToDefaultPrompt",
      "deleteBranchPrompt", "checkoutNew", "featureAdd", "featureCommit",
      "featurePush", "prCreate", "copyToClipboard", "prMerge",
      "ifBackToDefault", "ifDeleteBranch" }

\* C10: a dirty run whose captured branch is exactly main, master or
\* bullseye is only ever in the feature-branch path, its first prompt is
\* 'Create Branch?' and it never asks 'wip?'; a dirty run on any other
\* captured branch (the empty string and 'Main' included) is only ever in
\* the direct-commit path, its first prompt is 'wip?' and it never asks
\* 'Create Branch?'; a dirty run that ends without any failure has asked
\* its first prompt.
C10_Classification ==
    /\ pc \in DirectPositions => baseBranch \notin MainMasterBullseye
    /\ pc \in FeaturePositions => baseBranch \in MainMasterBullseye
    /\ (StatusCaptured /\ prompts # <<>>) =>
          IF baseBranch \in MainMasterBullseye
          THEN prompts[1].message = "Create Branch?" /\ ~Asked("wip?")
          ELSE prompts[1].message = "wip?" /\ ~Asked("Create Branch?")
    /\ (StatusCaptured /\ Trim(statusOutput) # <<>> /\ Exited) => prompts # <<>>

\* a dirty run on 'Main' that went down the direct-commit path to its end
C10_Witness ==
    /\ baseBranch = <<"M", "a", "i", "n">>
    /\ Exited
    /\ exitCode = 0
    /\ prompts # <<>>
    /\ prompts[1].message = "wip?"
    /\ Len(cmds) = 5

(* ------------------------------------------------------------------ *)
(* The branch-name sanitization over every short operator input       *)
(* ------------------------------------------------------------------ *)
MaxNameLen == 3

\* characters an operator may type: a lower-case letter, an upper-case
\* letter, a digit, the dash, and characters outside [a-zA-Z0-9]
NameChars == {"a", "Z", "7", "-", " ", "/"}

\* every text of at most MaxNameLen characters; <<>> accepts the default
AllTypedNames == SeqsUpTo(NameChars, MaxNameLen)

\* a run on main with an empty store and a dirty tree, the operator having
\* accepted 'Create Branch?': the state in which 'Branch name:' is asked
AtBranchNamePrompt ==
    /\ pc = "branchNamePrompt"
    /\ exitCode = 0
    /\ script = sIndex
    /\ platform = "linux"
    /\ installed = {tGit, tGh}
    /\ configStore = File(<< <<>> >>)
    /\ config = ParseConfig(configStore.lines)
    /\ warnings = ConfigWarnings(configStore.lines)
    /\ missingCommands = <<>>
    /\ setupAnswers = <<>>
    /\ shell = ""
    /\ aliasAdded = FALSE
    /\ readmeMarked = FALSE
    /\ cmds = << Command("git branch --show-current", <<>>, 0),
                 Command("git status --porcelain", <<>>, 0) >>
    /\ prompts = << Confirm("Create Branch?", TRUE, TRUE) >>
    /\ out = <<>>
    /\ baseBranch = sMain
    /\ statusOutput = <<" ", "M", " ", "a", "\n">>
    /\ isClean = FALSE
    /\ isDefaultBranch = TRUE
    /\ wipIt = FALSE
    /\ pool = NoFile
    /\ poolRead = FALSE
    /\ commitMessage = <<>>
    /\ createBranch = TRUE
    /\ branchName = <<>>
    /\ fixedBranchName = <<>>
    /\ createPr = FALSE
    /\ enableAutoMerge = FALSE
    /\ backToDefault = FALSE
    /\ deleteBranch = FALSE
    /\ outputPrCreate = <<>>
    /\ trimmedOutput = <<>>
    /\ prNumber = <<>>

\* the 'Branch name:' input answered with any text of AllTypedNames
BranchNameAnyInput == BranchNameInput(AllTypedNames)

\* the sanitization applied once more to the name it produced
Resanitize ==
    /\ pc = "commitMessagePrompt"
    /\ fixedBranchName' = Sanitize(fixedBranchName)
    /\ pc' = "resanitized"
    /\ UNCHANGED <<exitCode, script, platform, installed, setupVars, cmds, prompts, out,
                   repoVars, directVars, commitMessage, createBranch, branchName,
                   createPr, enableAutoMerge, backToDefault, deleteBranch, prVars>>

SanitizeNext == BranchNameAnyInput \/ Resanitize

SanitizeSpec == AtBranchNamePrompt /\ [][SanitizeNext]_vars

\* the character class [a-z0-9-]
RefChars == LowerSet \cup Digits \cup {"-"}

\* C11: the sanitized branch name consists only of characters of [a-z0-9-]
\* for every answer of the 'Branch name:' input, whether the operator
\* accepted the default or typed a name (the answer the prompt returned is
\* the text sanitized: same length, lower-case letters and digits kept, an
\* upper-case letter lowered, anything else a dash), and sanitizing the
\* sanitized name again returns it unchanged.
C11_SanitizeIdempotent ==
    [][ /\ pc = "branchNamePrompt" =>
            /\ branchName' = prompts'[Len(prompts')].answer
            /\ Len(fixedBranchName') = Len(branchName')
            /\ \A i \in 1..Len(branchName') :
                 /\ fixedBranchName'[i] \in RefChars
                 /\ branchName'[i] \in LowerSet \cup Digits
                        => fixedBranchName'[i] = branchName'[i]
                 /\ branchName'[i] \in UpperSet
                        => /\ fixedBranchName'[i] \in LowerSet
                           /\ fixedBranchName'[i] = ToLowerChar(branchName'[i])
                 /\ branchName'[i] \notin AlphaNum => fixedBranchName'[i] = "-"
        /\ pc = "commitMessagePrompt" => fixedBranchName' = fixedBranchName
      ]_vars

\* a typed override with an upper-case letter and a space was sanitized twice
C11_Witness ==
    /\ pc = "resanitized"
    /\ branchName = <<"Z", " ", "a">>
    /\ prompts[Len(prompts)].dflt # branchName
    /\ fixedBranchName = <<"z", "-", "a">>

\* the accepted default went through the same sanitization
C11_DefaultWitness ==
    /\ pc = "resanitized"
    /\ prompts[Len(prompts)].dflt = branchName
    /\ fixedBranchName = Sanitize(branchName)

(* ------------------------------------------------------------------ *)
(* C12                                                                *)
(* ------------------------------------------------------------------ *)
\* a text of [a-z0-9-] is a valid git ref component when it is not empty
\* and does not begin with a dash
ValidRefComponent(name) ==
    /\ name # <<>>
    /\ \A i \in 1..Len(name) : name[i] \in RefChars
    /\ Head(name) # "-"

\* C12: the name handed to git checkout -b is non-empty and a valid git ref
\* component (in particular it does not begin with '-'), whatever the
\* operator answered at 'Branch name:'.
C12_CheckoutNameValid ==
    \A i \in Issued({"git checkout -b"}) : ValidRefComponent(cmds[i].arg)

(* ------------------------------------------------------------------ *)
(* loadConfig over every short store                                  *)
(* ------------------------------------------------------------------ *)
MaxConfigLines == 2

\* lines an operator may leave in ~/.gun.conf: empty, unknown key, valid,
\* invalid value, second '=', no '=', padded, empty value, empty key,
\* blank value
ConfigLineChoices ==
    { <<>>,
      <<"F", "O", "O", "=", "t", "r", "u", "e">>,
      KeyValue(kCreatePr, FALSE),
      KeyValue(kCreatePr, TRUE),
      KeyValue(kAutoMerge, FALSE),
      kAutoMerge \o <<"=", "y", "e", "s">>,
      kCreatePr \o <<"=", "f", "a", "l", "s", "e", "=", "x">>,
      kDeleteBranch,
      <<" ">> \o kFunnyCommit \o <<" ", "=", " ", "f", "a", "l", "s", "e", " ">>,
      kCreatePr \o <<"=">>,
      <<"=", "t", "r", "u", "e">>,
      kCreatePr \o <<"=", " ">> }

\* every store of one to MaxConfigLines of these lines
AllConfigStores ==
    {File(l) : l \in SeqsUpTo(ConfigLineChoices, MaxConfigLines) \ {<<>>}}

\* the start of a run whose store is any of AllConfigStores
ConfigInit ==
    /\ pc = "loadConfig"
    /\ exitCode = 0
    /\ script = sIndex
    /\ platform = "linux"
    /\ installed = {tGit, tGh}
    /\ configStore \in AllConfigStores
    /\ config = DefaultConfig
    /\ warnings = <<>>
    /\ missingCommands = <<>>
    /\ setupAnswers = <<>>
    /\ shell = ""
    /\ aliasAdded = FALSE
    /\ readmeMarked = FALSE
    /\ cmds = <<>>
    /\ prompts = <<>>
    /\ out = <<>>
    /\ baseBranch = <<>>
    /\ statusOutput = <<>>
    /\ isClean = FALSE
    /\ isDefaultBranch = FALSE
    /\ wipIt = FALSE
    /\ pool = NoFile
    /\ poolRead = FALSE
    /\ commitMessage = <<>>
    /\ createBranch = FALSE
    /\ branchName = <<>>
    /\ fixedBranchName = <<>>
    /\ createPr = FALSE
    /\ enableAutoMerge = FALSE
    /\ backToDefault = FALSE
    /\ deleteBranch = FALSE
    /\ outputPrCreate = <<>>
    /\ trimmedOutput = <<>>
    /\ prNumber = <<>>

ConfigNext == LoadConfig

ConfigSpec == ConfigInit /\ [][ConfigNext]_vars

\* a line as a key=value store reads it: the key is the text before the
\* first '=', the value the whole remainder after it, both trimmed
HasEquals(line) == \E i \in 1..Len(line) : line[i] = "="

FirstEquals(line) ==
    CHOOSE i \in 1..Len(line) : line[i] = "=" /\ \A j \in 1..(i - 1) : line[j] # "="

KeyText(line) == Trim(SubSeq(line, 1, FirstEquals(line) - 1))

ValueText(line) == Trim(SubSeq(line, FirstEquals(line) + 1, Len(line)))

CountEquals(line) == Cardinality({i \in 1..Len(line) : line[i] = "="})

UnknownKeyLine(line) == HasEquals(line) /\ KeyText(line) \notin configKeySet

InvalidValueLine(line) ==
    /\ HasEquals(line)
    /\ KeyText(line) \in configKeySet
    /\ ValueText(line) \notin {sTrue, sFalse}

ValidLine(line) ==
    /\ HasEquals(line)
    /\ KeyText(line) \in configKeySet
    /\ ValueText(line) \in {sTrue, sFalse}

\* the store loadConfig has parsed, its last line, and the toggles as they
\* were before that line
Loaded == pc = "parseArgs"

StoreLines == configStore.lines

LastLine == StoreLines[Len(StoreLines)]

ConfigBeforeLastLine == ParseConfig(SubSeq(StoreLines, 1, Len(StoreLines) - 1))

\* C13: after loading an existing store, whose last line is any line: a
\* last line with an unknown key leaves all five toggles as they were
\* before it; a last line with a recognized key and a value other than
\* true/false leaves that toggle as it was before it; a last line without
\* '=' leaves all five toggles as they were; and a toggle that no valid
\* line of the store mentions is true.
C13_ConfigFrame ==
    Loaded =>
        /\ UnknownKeyLine(LastLine) => config = ConfigBeforeLastLine
        /\ InvalidValueLine(LastLine) =>
                config[KeyText(LastLine)] = ConfigBeforeLastLine[KeyText(LastLine)]
        /\ ~HasEquals(LastLine) => config = ConfigBeforeLastLine
        /\ \A k \in configKeySet :
              (\A i \in 1..Len(StoreLines) :
                   ~(ValidLine(StoreLines[i]) /\ KeyText(StoreLines[i]) = k))
                 => config[k] = TRUE

\* the same four statements over the stores whose lines hold at most one '='
ConfigFrameSingleEquals ==
    (\A i \in 1..Len(StoreLines) : CountEquals(StoreLines[i]) <= 1) => C13_ConfigFrame

\* C14: for a recognized key, every value (the whole remainder after the
\* first '=', trimmed) other than true/false, the empty value and a value
\* holding '=' included, makes loadConfig warn of an invalid value for that
\* line, and as last line of the store leaves the toggle as it was.
C14_SplitOnFirstEquals ==
    Loaded =>
        /\ \A i \in 1..Len(StoreLines) :
              InvalidValueLine(StoreLines[i]) => warnings[i] = "invalid"
        /\ InvalidValueLine(LastLine) =>
              config[KeyText(LastLine)] = ConfigBeforeLastLine[KeyText(LastLine)]

(* ------------------------------------------------------------------ *)
(* C15                                                                *)
(* ------------------------------------------------------------------ *)
ProbeCommands == {"command -v", "where"}

\* a first run (the store was missing or unreadable) that found both tools
SetupRun ==
    /\ Issued(ProbeCommands) # {}
    /\ installed = {tGit, tGh}
    /\ pc # "checkBinaries"

\* the prompts asked so far are the first of the five setup confirmations
SetupPromptsOnly ==
    /\ Len(prompts) <= Len(setupMessages)
    /\ \A i \in 1..Len(prompts) : prompts[i].message = setupMessages[i]

\* the store holds the five keys in order, each with the answer given
StoreHoldsAnswers ==
    /\ Len(prompts) = Len(configKeys)
    /\ Len(configStore.lines) = Len(configKeys)
    /\ \A i \in 1..Len(configKeys) :
          configStore.lines[i] = configKeys[i] \o <<"=">> \o prompts[i].answer

\* ensureAliasExists found the alias line or appended it
AliasStepDone ==
    /\ shell \in {"zsh", "bash"}
    /\ aliasAdded \/ out[Len(out)] = "Alias already exists"

\* C15 as stated: a first run with both tools present ends having asked the
\* five prompts and written the store, with exit code 0, and never queries
\* the repository or issues a workflow command.
C15_FirstRunSetup_AsStated ==
    SetupRun =>
        /\ Issued(QueryCommands \cup MutatingCommands \cup ClipboardCommands) = {}
        /\ SetupPromptsOnly
        /\ Exited => /\ configStore.exists
                     /\ StoreHoldsAnswers
                     /\ exitCode = 0

\* C15: a first run with both tools present asks only the five setup
\* prompts, never queries the repository and never issues a workflow
\* command; it does not end before the fifth answer; the store, once
\* written, holds the five answers; and a run that ends with the store
\* written exits 0 exactly when the alias step is done (shell zsh or bash,
\* alias line found or appended), and 1 otherwise; a run that ends without
\* the store (the write failed) exits 1.
C15_FirstRunSetup ==
    SetupRun =>
        /\ Issued(QueryCommands \cup MutatingCommands \cup ClipboardCommands) = {}
        /\ SetupPromptsOnly
        /\ configStore.exists => StoreHoldsAnswers
        /\ Exited =>
              /\ Len(prompts) = Len(setupMessages)
              /\ exitCode = (IF configStore.exists /\ AliasStepDone THEN 0 ELSE 1)

\* setup completed with mixed answers and the alias appended
C15_Witness ==
    /\ SetupRun
    /\ Exited
    /\ exitCode = 0
    /\ aliasAdded
    /\ setupAnswers = <<TRUE, FALSE, TRUE, FALSE, TRUE>>

\* the store was written and the unsupported shell ended the run with 1
C15_UnsupportedShellWitness ==
    /\ SetupRun
    /\ Exited
    /\ configStore.exists
    /\ shell = "fish"
    /\ exitCode = 1

(* ------------------------------------------------------------------ *)
(* C16                                                                *)
(* ------------------------------------------------------------------ *)
RequiredTools == {requiredCommands[i] : i \in 1..Len(requiredCommands)}

ToolMissing == installed # RequiredTools

\* the missing tools were reported, each once, in the order they are probed
MissingReported ==
    /\ \E i \in 1..Len(out) : out[i] = "Missing required commands"
    /\ {missingCommands[i] : i \in 1..Len(missingCommands)} = RequiredTools \ installed
    /\ Len(missingCommands) = Cardinality(RequiredTools \ installed)

\* no setup prompt, no store written, no command other than the probes
NoPartialRun ==
    /\ prompts = <<>>
    /\ setupAnswers = <<>>
    /\ Issued(QueryCommands \cup MutatingCommands \cup ClipboardCommands) = {}

\* C16 as stated: with git or gh missing, on a first run or with a store
\* already there, no setup prompt is asked and no workflow command is
\* issued, and a run that got as far as its first external command ends by
\* reporting every missing tool with a non-zero exit code.
C16_Preflight_AsStated ==
    ToolMissing =>
        /\ \A i \in 1..Len(prompts) : prompts[i].message \notin
                {setupMessages[n] : n \in 1..Len(setupMessages)}
        /\ Issued(MutatingCommands) = {}
        /\ (Exited /\ cmds # <<>>) => (exitCode # 0 /\ MissingReported)

\* C16: on a first run (the store missing or unreadable, so that
\* checkBinaries has run) with git or gh missing, the run has ended with a
\* non-zero exit code, has reported every missing tool, has asked no
\* prompt, has written no store and has issued no command but the probes.
C16_PreflightOnFirstRun ==
    (ToolMissing /\ Issued(ProbeCommands) # {}) =>
        /\ Exited
        /\ exitCode # 0
        /\ MissingReported
        /\ NoPartialRun
        /\ ~configStore.exists

\* both tools missing on a first run, both reported
C16_Witness ==
    /\ installed = {}
    /\ Issued(ProbeCommands) # {}
    /\ Exited
    /\ missingCommands = requiredCommands
    /\ exitCode = 1

(* ------------------------------------------------------------------ *)
(* C17                                                                *)
(* ------------------------------------------------------------------ *)
\* the prompts of a feature-branch run, given the answers read so far
ExpectedPlanPrompts ==
    << "Create Branch?", "Branch name:", "Commit message:", "Create PR?" >>
    \o (IF Answered("Create PR?", TRUE) THEN << "Enable auto merge?" >> ELSE << >>)
    \o << "Back to ${baseBranch}?" >>
    \o (IF Answered("Back to ${baseBranch}?", TRUE) THEN << "Delete branch?" >> ELSE << >>)

\* the toggle behind each of the four confirmations of the plan
PlanConfirmations ==
    { "Create PR?", "Enable auto merge?", "Back to ${baseBranch}?", "Delete branch?" }

ToggleOf(message) ==
    CASE message = "Create PR?"             -> kCreatePr
      [] message = "Enable auto merge?"     -> kAutoMerge
      [] message = "Back to ${baseBranch}?" -> kBackToDefault
      [] message = "Delete branch?"         -> kDeleteBranch

\* C17: once 'Create Branch?' was accepted the prompts asked are, in order,
\* branch name, commit message, create-PR, enable-auto-merge (exactly when
\* create-PR was accepted), return-to-base, delete-branch (exactly when
\* return-to-base was accepted); each of the four confirmations is offered
\* the loaded config toggle as its default; and when the first mutating
\* command has been issued every one of these prompts has been answered.
C17_PromptOrder ==
    Answered("Create Branch?", TRUE) =>
        /\ Len(prompts) <= Len(ExpectedPlanPrompts)
        /\ \A i \in 1..Len(prompts) :
              /\ prompts[i].message = ExpectedPlanPrompts[i]
              /\ prompts[i].message \in PlanConfirmations =>
                    prompts[i].dflt = BoolStr(config[ToggleOf(prompts[i].message)])
        /\ Issued(MutatingCommands) # {} => Len(prompts) = Len(ExpectedPlanPrompts)

\* PR declined by an operator whose store says CREATE_PR=false, return and
\* delete accepted, the branch being created
C17_Witness ==
    /\ Answered("Create Branch?", TRUE)
    /\ ~config[kCreatePr]
    /\ config[kAutoMerge]
    /\ Answered("Create PR?", FALSE)
    /\ Answered("Back to ${baseBranch}?", TRUE)
    /\ Asked("Delete branch?")
    /\ ~Asked("Enable auto merge?")
    /\ Issued({"git checkout -b"}) # {}

(* ------------------------------------------------------------------ *)
(* C18                                                                *)
(* ------------------------------------------------------------------ *)
\* C18: wherever git branch -d stands in the commands of a run, the
\* operator had accepted return-to-base, an earlier git checkout of the
\* base branch returned 0, the branch deleted is the sanitized name, no
\* command follows it, and the force flag -D is never used.
C18_DeleteAfterReturn ==
    /\ \A i \in Issued({"git branch -d"}) :
          /\ Answered("Back to ${baseBranch}?", TRUE)
          /\ \E j \in 1..(i - 1) :
                /\ cmds[j].cmd = "git checkout"
                /\ cmds[j].arg = baseBranch
                /\ cmds[j].exit = 0
          /\ cmds[i].arg = Sanitize(branchName)
          /\ i = Len(cmds)
    /\ Issued({"git branch -D"}) = {}

\* the branch was deleted after the return to main, and the run is over
C18_Witness ==
    /\ Exited
    /\ exitCode = 0
    /\ baseBranch = sMain
    /\ Issued({"git branch -d"}) # {}
    /\ cmds[Len(cmds)].cmd = "git branch -d"
    /\ cmds[Len(cmds)].exit = 0

(* ------------------------------------------------------------------ *)
(* C19                                                                *)
(* ------------------------------------------------------------------ *)
\* n is the text after the last '/' of url
FinalSegment(url, n) ==
    /\ \A c \in 1..Len(n) : n[c] # "/"
    /\ Len(url) > Len(n)
    /\ url[Len(url) - Len(n)] = "/"
    /\ SubSeq(url, Len(url) - Len(n) + 1, Len(url)) = n

\* the commands the plan asks for once the PR URL has been copied
AfterClipboard ==
    (IF Answered("Enable auto merge?", TRUE)
        THEN << "gh pr merge --auto --squash" >> ELSE << >>)
    \o (IF Answered("Back to ${baseBranch}?", TRUE) THEN << "git checkout" >> ELSE << >>)
    \o (IF Answered("Delete branch?", TRUE) THEN << "git branch -d" >> ELSE << >>)

\* C19: gh pr merge --auto --squash is issued only when auto-merge was
\* accepted and a gh pr create before it returned 0; its argument is the
\* text after the last '/' of the URL gh pr create printed; the clipboard
\* command, where the platform has one, carries that URL and stands right
\* after gh pr create and before the merge; and whatever the clipboard
\* command returned, a run whose other commands all returned 0 issues after
\* it exactly the commands of the plan and exits 0.
C19_MergeAfterCreate ==
    /\ \A i \in Issued({"gh pr merge --auto --squash"}) :
          /\ Answered("Enable auto merge?", TRUE)
          /\ FinalSegment(Trim(outputPrCreate), cmds[i].arg)
          /\ \E j \in 1..(i - 1) :
                /\ cmds[j].cmd = "gh pr create -f -B"
                /\ cmds[j].exit = 0
                /\ i = j + (IF platform \in DOMAIN ClipboardTool THEN 2 ELSE 1)
    /\ \A k \in Issued(ClipboardCommands) :
          /\ k > 1
          /\ cmds[k - 1].cmd = "gh pr create -f -B"
          /\ cmds[k - 1].exit = 0
          /\ cmds[k].cmd = ClipboardTool[platform]
          /\ cmds[k].arg = Trim(outputPrCreate)
          /\ \A i \in Issued({"gh pr merge --auto --squash"}) : k < i
          /\ (Exited /\ \A m \in 1..Len(cmds) : m # k => cmds[m].exit = 0) =>
                /\ exitCode = 0
                /\ Len(cmds) = k + Len(AfterClipboard)
                /\ \A m \in 1..Len(AfterClipboard) : cmds[k + m].cmd = AfterClipboard[m]
    /\ (platform \notin DOMAIN ClipboardTool) => Issued(ClipboardCommands) = {}

\* PR 42 was created, the clipboard command failed, auto-merge was enabled
\* for 42 and the run ended with exit code 0
C19_Witness ==
    /\ Exited
    /\ exitCode = 0
    /\ \E k \in Issued(ClipboardCommands) : cmds[k].exit # 0
    /\ \E i \in Issued({"gh pr merge --auto --squash"}) :
          /\ cmds[i].arg = <<"4", "2">>
          /\ cmds[i].exit = 0

(* ------------------------------------------------------------------ *)
(* C20                                                                *)
(* ------------------------------------------------------------------ *)
\* the prompts of the workflow: every prompt but the setup confirmations
WorkflowPrompted ==
    \E i \in 1..Len(prompts) :
        prompts[i].message \notin {setupMessages[n] : n \in 1..Len(setupMessages)}

\* both queries were issued once, first of all commands, and returned 0
CapturedOnce ==
    /\ Issued({"git branch --show-current"}) = {1}
    /\ Issued({"git status --porcelain"}) = {2}
    /\ cmds[1].exit = 0
    /\ cmds[2].exit = 0

\* C20: git branch --show-current and git status --porcelain are each
\* issued at most once in a run, as its first and second command; a run
\* that has asked a workflow prompt or issued a mutating command has issued
\* both, successfully, before; the branch handed to gh pr create -B and to
\* the returning git checkout is the captured base branch, which is not the
\* branch the run has created; and once captured, the base branch, the
\* status output and the classification never change for the rest of the run.
C20_CapturedOnce ==
    /\ [](/\ Issued({"git branch --show-current"}) \subseteq {1}
          /\ Issued({"git status --porcelain"}) \subseteq {2}
          /\ (WorkflowPrompted \/ Issued(MutatingCommands) # {}) => CapturedOnce
          /\ \A i \in Issued({"gh pr create -f -B", "git checkout"}) :
                /\ cmds[i].arg = baseBranch
                /\ \E j \in 1..(i - 1) :
                      /\ cmds[j].cmd = "git checkout -b"
                      /\ cmds[j].exit = 0
                      /\ cmds[j].arg # cmds[i].arg)
    /\ [][ /\ pc # "queryBranch" => baseBranch' = baseBranch
           /\ pc # "queryStatus" => UNCHANGED <<statusOutput, isClean>>
           /\ pc # "classify" => UNCHANGED isDefaultBranch ]_vars

\* on master, a PR was opened against master from the new branch and the
\* run returned to master
C20_Witness ==
    /\ Exited
    /\ exitCode = 0
    /\ baseBranch = sMaster
    /\ fixedBranchName # baseBranch
    /\ Issued({"gh pr create -f -B"}) # {}
    /\ Issued({"git checkout"}) # {}
    /\ \A i \in 1..Len(cmds) : cmds[i].exit = 0

(* ------------------------------------------------------------------ *)
(* C21                                                                *)
(* ------------------------------------------------------------------ *)
\* C21: once 'Create Branch?' was declined the run is over with exit code
\* 0, 'Create Branch?' is the last prompt asked, and the only commands the
\* run has issued are the two repository queries: no checkout, add, commit,
\* push, gh or clipboard command.
C21_DeclineCreateBranch ==
    Answered("Create Branch?", FALSE) =>
        /\ Exited
        /\ exitCode = 0
        /\ prompts[Len(prompts)].message = "Create Branch?"
        /\ Issued(MutatingCommands \cup ClipboardCommands \cup ProbeCommands) = {}
        /\ Len(cmds) = 2

\* on master with a dirty tree the operator declined the branch
C21_Witness ==
    /\ Answered("Create Branch?", FALSE)
    /\ baseBranch = sMaster
    /\ ~isClean
    /\ Exited

(* ------------------------------------------------------------------ *)
(* The direct-commit path over every short pool file                  *)
(* ------------------------------------------------------------------ *)
\* a run on the feature branch f-x with an empty store (FUNNY_COMMIT on)
\* and a dirty tree: the state in which 'wip?' is asked
AtWipPrompt ==
    /\ pc = "wipPrompt"
    /\ exitCode = 0
    /\ script = sIndex
    /\ platform = "linux"
    /\ installed = {tGit, tGh}
    /\ configStore = File(<< <<>> >>)
    /\ config = ParseConfig(configStore.lines)
    /\ warnings = ConfigWarnings(configStore.lines)
    /\ missingCommands = <<>>
    /\ setupAnswers = <<>>
    /\ shell = ""
    /\ aliasAdded = FALSE
    /\ readmeMarked = FALSE
    /\ cmds = << Command("git branch --show-current", <<>>, 0),
                 Command("git status --porcelain", <<>>, 0) >>
    /\ prompts = <<>>
    /\ out = <<>>
    /\ baseBranch = <<"f", "-", "x">>
    /\ statusOutput = <<" ", "M", " ", "a", "\n">>
    /\ isClean = FALSE
    /\ isDefaultBranch = FALSE
    /\ wipIt = FALSE
    /\ pool = NoFile
    /\ poolRead = FALSE
    /\ commitMessage = <<>>
    /\ createBranch = FALSE
    /\ branchName = <<>>
    /\ fixedBranchName = <<>>
    /\ createPr = FALSE
    /\ enableAutoMerge = FALSE
    /\ backToDefault = FALSE
    /\ deleteBranch = FALSE
    /\ outputPrCreate = <<>>
    /\ trimmedOutput = <<>>
    /\ prNumber = <<>>

\* the direct-commit path from 'wip?' to the end of the script
PoolNext ==
    \/ WipPrompt
    \/ GetCommitMessage
    \/ DirectSkip
    \/ DirectAdd
    \/ DirectCommit
    \/ DirectPush
    \/ IfDefault

PoolSpec == AtWipPrompt /\ [][PoolNext]_vars

(* ------------------------------------------------------------------ *)
(* C22                                                                *)
(* ------------------------------------------------------------------ *)
\* a pool line that is not blank and whose first character is not '#'
NonBlankNoHash(line) ==
    /\ \E c \in 1..Len(line) : line[c] \notin WhiteSpace
    /\ line[1] # "#"

\* C22: on the direct-commit path with FUNNY_COMMIT on, the message of
\* every git commit issued is non-empty and is the trimmed text of a line
\* of the pool that is not blank and does not start with '#'; a run that
\* read a pool without such a line issues no commit; and at the point the
\* message is drawn, for every pool and every such line of it, the step
\* that reads this pool and returns this line trimmed can be taken.
C22_FunnyMessage ==
    (Asked("wip?") /\ config[kFunnyCommit]) =>
        /\ \A i \in Issued({"git commit -m"}) :
              /\ cmds[i].arg # <<>>
              /\ \E j \in 1..Len(pool.lines) :
                    /\ NonBlankNoHash(pool.lines[j])
                    /\ cmds[i].arg = Trim(pool.lines[j])
        /\ (poolRead /\ pool.exists
              /\ \A j \in 1..Len(pool.lines) : ~NonBlankNoHash(pool.lines[j]))
             => Issued({"git commit -m"}) = {}
        /\ pc = "getCommitMessage" =>
              \A p \in PoolFiles : \A j \in 1..Len(p.lines) :
                  NonBlankNoHash(p.lines[j]) =>
                      ENABLED (/\ GetCommitMessageFrom(p)
                               /\ pool' = p
                               /\ commitMessage' = Trim(p.lines[j])
                               /\ pc' = "ifWipIt")

\* the pool held a comment and 'fix ', and the commit was made with 'fix'
C22_Witness ==
    /\ Asked("wip?")
    /\ config[kFunnyCommit]
    /\ pool = File(<< <<"#", "c">>, <<"f", "i", "x", " ">> >>)
    /\ \E i \in Issued({"git commit -m"}) :
          /\ cmds[i].arg = <<"f", "i", "x">>
          /\ cmds[i].exit = 0

(* ------------------------------------------------------------------ *)
(* First-run setup followed by the next run of the script             *)
(* ------------------------------------------------------------------ *)
\* a first run: no store, both tools installed
FirstRunInit ==
    /\ Init
    /\ configStore = NoFile
    /\ installed = {tGit, tGh}

\* the script is started again after setup has ended: a new process with
\* the store, the platform and the tools as the first run left them
\* (setupAnswers is kept as the record of what the operator answered)
RunAgain ==
    /\ pc = "exited"
    /\ configStore.exists
    /\ setupAnswers # <<>>
    /\ prompts # <<>>
    /\ pc' = "loadConfig"
    /\ exitCode' = 0
    /\ config' = DefaultConfig
    /\ warnings' = <<>>
    /\ missingCommands' = <<>>
    /\ shell' = ""
    /\ aliasAdded' = FALSE
    /\ cmds' = <<>>
    /\ prompts' = <<>>
    /\ out' = <<>>
    /\ UNCHANGED <<script, platform, installed, configStore, setupAnswers, readmeMarked,
                   repoVars, directVars, commitMessage, planVars, prVars>>

RoundTripNext ==
    \/ LoadConfig
    \/ CheckBinaries
    \/ SetupConfirm
    \/ WriteConfig
    \/ EnsureAliasExists
    \/ RunAgain

RoundTripSpec == FirstRunInit /\ [][RoundTripNext]_vars

\* the run after setup has loaded the store
LoadedAfterSetup ==
    /\ pc = "parseArgs"
    /\ setupAnswers # <<>>

(* ------------------------------------------------------------------ *)
(* C23                                                                *)
(* ------------------------------------------------------------------ *)
\* C23: whatever the five answers of first-run setup were, the run that
\* follows loads from the store setup wrote the toggle values CREATE_PR,
\* FUNNY_COMMIT, AUTO_MERGE, BACK_TO_DEFAULT, DELETE_BRANCH equal to the
\* first to fifth answer, and warns of no unknown key and no invalid value.
C23_ConfigRoundTrip ==
    LoadedAfterSetup =>
        /\ Len(setupAnswers) = Len(configKeys)
        /\ \A i \in 1..Len(configKeys) : config[configKeys[i]] = setupAnswers[i]
        /\ \A i \in 1..Len(warnings) : warnings[i] = "none"

\* the answers yes, no, yes, no, no came back as the five toggles
C23_Witness ==
    /\ LoadedAfterSetup
    /\ setupAnswers = <<TRUE, FALSE, TRUE, FALSE, FALSE>>
    /\ config[kCreatePr]
    /\ ~config[kFunnyCommit]
    /\ config[kAutoMerge]
    /\ ~config[kBackToDefault]
    /\ ~config[kDeleteBranch]

(* ------------------------------------------------------------------ *)
(* C24                                                                *)
(* ------------------------------------------------------------------ *)
\* a run whose loadConfig has returned (not a first run)
ConfigReturned ==
    /\ pc # "loadConfig"
    /\ configStore.exists
    /\ setupAnswers = <<>>
    /\ Issued(ProbeCommands) = {}

\* what the operator answered to a prompt that was asked
AnswerOf(message) ==
    prompts[CHOOSE i \in 1..Len(prompts) : prompts[i].message = message].answer

NameArg(cmd, arg) == [cmd |-> cmd, arg |-> arg]

\* the commands of a run as its inputs determine them: the captured branch
\* and status, the operator's answers, the message drawn on the direct
\* path, the output of gh pr create and the platform.  No toggle and no
\* prompt default occurs in these definitions.
PlannedDirect ==
    IF Answered("wip?", TRUE)
    THEN << NameArg("git add .", <<>>),
            NameArg("git commit -m", commitMessage),
            NameArg("git push", <<>>) >>
    ELSE << >>

PlannedPr ==
    IF Answered("Create PR?", TRUE)
    THEN << NameArg("gh pr create -f -B", baseBranch) >>
         \o (IF platform \in DOMAIN ClipboardTool
                THEN << NameArg(ClipboardTool[platform], Trim(outputPrCreate)) >>
                ELSE << >>)
         \o (IF Answered("Enable auto merge?", TRUE)
                THEN << NameArg("gh pr merge --auto --squash",
                                PrNumberOf(outputPrCreate)) >>
                ELSE << >>)
    ELSE << >>

PlannedFeature ==
    IF Answered("Create Branch?", TRUE) /\ Asked("Branch name:")
    THEN << NameArg("git checkout -b", Sanitize(AnswerOf("Branch name:"))),
            NameArg("git add .", <<>>),
            NameArg("git commit -m",
                    IF Asked("Commit message:") THEN AnswerOf("Commit message:")
                    ELSE <<>>),
            NameArg("git push -u origin", Sanitize(AnswerOf("Branch name:"))) >>
         \o PlannedPr
         \o (IF Answered("Back to ${baseBranch}?", TRUE)
                THEN << NameArg("git checkout", baseBranch) >> ELSE << >>)
         \o (IF Answered("Delete branch?", TRUE)
                THEN << NameArg("git branch -d", Sanitize(AnswerOf("Branch name:"))) >>
                ELSE << >>)
    ELSE << >>

PlannedCommands ==
    << NameArg("git branch --show-current", <<>>),
       NameArg("git status --porcelain", <<>>) >>
    \o (IF Asked("wip?") THEN PlannedDirect ELSE PlannedFeature)

\* commands whose exit code the script ignores
NonFatalCommands == ClipboardCommands \cup {"gh pr merge --auto --squash"}

FatalAt(i) == cmds[i].exit # 0 /\ cmds[i].cmd \notin NonFatalCommands

\* the draw of the direct-path message threw: FUNNY_COMMIT was on and the
\* pool was missing or held no eligible line
DrawFailed ==
    /\ Asked("wip?")
    /\ poolRead
    /\ (~pool.exists \/ \A j \in 1..Len(pool.lines) : ~NonBlankNoHash(pool.lines[j]))

\* the exit code of a finished run as the same inputs determine it
PlannedExit ==
    IF \E i \in 1..Len(cmds) : FatalAt(i) THEN 1
    ELSE IF Len(cmds) < 2 THEN 1
    ELSE IF DrawFailed THEN 1
    ELSE 0

\* the names and arguments of the commands issued so far
IssuedNameArgs == [i \in 1..Len(cmds) |-> NameArg(cmds[i].cmd, cmds[i].arg)]

\* the toggles loadConfig parses from each store a run may find
LoadedToggles == [s \in ConfigStores \ {NoFile} |-> ParseConfig(s.lines)]

\* C24: in a run whose configuration was loaded from the store, at every
\* step config holds the toggles as loadConfig parsed them from the store;
\* and once the run has ended, its commands and exit code are determined by
\* the repository state, the operator's answers, the command outcomes, the
\* platform and, on the direct-commit path, the message drawn (which
\* FUNNY_COMMIT governs): the commands issued are the first of
\* PlannedCommands, all of them when the run exits 0, nothing follows a
\* fatal failure, and the exit code is PlannedExit.  None of these mentions
\* CREATE_PR, AUTO_MERGE, BACK_TO_DEFAULT or DELETE_BRANCH, nor
\* FUNNY_COMMIT on the feature-branch path, so two runs that differ only
\* there issue the same commands and exit alike.
C24_ConfigNonInterference ==
    ConfigReturned =>
        /\ config = LoadedToggles[configStore]
        /\ Exited =>
              /\ Len(cmds) <= Len(PlannedCommands)
              /\ IssuedNameArgs = SubSeq(PlannedCommands, 1, Len(cmds))
              /\ \A i \in 1..Len(cmds) : FatalAt(i) => i = Len(cmds)
              /\ exitCode = PlannedExit
              /\ exitCode = 0 => Len(cmds) = Len(PlannedCommands)

\* with every toggle stored as false the operator answered yes throughout:
\* PR, auto-merge, return and delete were all carried out
C24_Witness ==
    /\ ConfigReturned
    /\ \A k \in configKeySet : ~config[k]
    /\ Exited
    /\ exitCode = 0
    /\ Len(cmds) = 10
    /\ cmds[Len(cmds)].cmd = "git branch -d"
    /\ Issued({"gh pr merge --auto --squash"}) # {}
(* ------------------------------------------------------------------ *)
(* The variant src/unnamed/part_000                                    *)
(* ------------------------------------------------------------------ *)
\* The variant is src/index.ts with six places changed; every other step
\* is the same text and is modelled by the same action.

\* names every object inherits from Object.prototype (three of them; the
\* others, such as valueOf, behave like toString)
sToString    == <<"t", "o", "S", "t", "r", "i", "n", "g">>
sConstructor == <<"c", "o", "n", "s", "t", "r", "u", "c", "t", "o", "r">>
sProto       == <<"_", "_", "p", "r", "o", "t", "o", "_", "_">>
ObjectPrototypeKeys == {sToString, sConstructor, sProto}

\* trimmedKey in config: own and inherited properties
VariantKnownKey(cfg, key) == key \in DOMAIN cfg \/ key \in ObjectPrototypeKeys

\* config[trimmedKey] = b: an inherited name becomes an own property,
\* except __proto__, whose setter ignores a boolean
VariantAssign(cfg, key, b) ==
    IF key = sProto THEN cfg
    ELSE [k \in DOMAIN cfg \cup {key} |-> IF k = key THEN b ELSE cfg[k]]

\* one line of the store applied to the record read so far
VariantConfigLine(cfg, line) ==
    LET parts == SplitOn(line, "=")
        key   == parts[1]
        value == IF Len(parts) >= 2 THEN parts[2] ELSE <<>>
    IN  IF key # <<>> /\ Len(parts) >= 2 /\ value # <<>>
        THEN IF VariantKnownKey(cfg, Trim(key))
             THEN IF Trim(value) = sTrue THEN VariantAssign(cfg, Trim(key), TRUE)
                  ELSE IF Trim(value) = sFalse THEN VariantAssign(cfg, Trim(key), FALSE)
                  ELSE cfg
             ELSE cfg
        ELSE cfg

\* the console.warn of one line: "invalid", "unknown" or "none"
VariantConfigLineWarning(line) ==
    LET parts == SplitOn(line, "=")
        key   == parts[1]
        value == IF Len(parts) >= 2 THEN parts[2] ELSE <<>>
    IN  IF key # <<>> /\ Len(parts) >= 2 /\ value # <<>>
        THEN IF VariantKnownKey(DefaultConfig, Trim(key))
             THEN IF Trim(value) \in {sTrue, sFalse} THEN "none" ELSE "invalid"
             ELSE "unknown"
        ELSE "none"

RECURSIVE VariantParseConfigFrom(_, _)
VariantParseConfigFrom(cfg, lines) ==
    IF lines = <<>> THEN cfg
    ELSE VariantParseConfigFrom(VariantConfigLine(cfg, Head(lines)), Tail(lines))

\* the try block of the variant's loadConfig on the lines of a store
VariantParseConfig(lines) == VariantParseConfigFrom(DefaultConfig, lines)

VariantConfigWarnings(lines) ==
    [i \in 1..Len(lines) |-> VariantConfigLineWarning(lines[i])]

\* loadConfig of the variant, try block
VariantLoadConfig ==
    /\ pc = "loadConfig"
    /\ IF configStore.exists
       THEN /\ config' = VariantParseConfig(configStore.lines)
            /\ warnings' = VariantConfigWarnings(configStore.lines)
            /\ Goto("parseArgs")
       ELSE /\ UNCHANGED <<config, warnings>>
            /\ Goto("checkBinaries")
    /\ UNCHANGED <<script, platform, installed, configStore, missingCommands, setupAnswers,
                   shell, aliasAdded, readmeMarked, cmds, prompts, out, repoVars,
                   directVars, commitMessage, planVars, prVars>>

\* Bun.write(configFile, configContent), then process.exit(0): the variant
\* has no alias step
VariantWriteConfig ==
    /\ pc = "writeConfig"
    /\ \E written \in BOOLEAN :
         IF written
         THEN /\ configStore' = File(ConfigContent(setupAnswers[1], setupAnswers[2],
                                   setupAnswers[3], setupAnswers[4], setupAnswers[5]))
              /\ out' = Append(out, "Config file created")
              /\ Exit(0)
         ELSE /\ UNCHANGED <<configStore, out>>
              /\ Throw
    /\ UNCHANGED <<script, platform, installed, config, warnings, missingCommands,
                   setupAnswers, shell, aliasAdded, readmeMarked, cmds, prompts,
                   repoVars, directVars, commitMessage, planVars, prVars>>

\* getCommitMessage of the variant with the pool file p on disk.  caught =
\* TRUE is the .catch of readFile: console.error and process.exit(1);
\* ok = FALSE without it is .trim() of undefined, uncaught
VariantGetCommitMessageOf(funnyCommit, p) ==
    IF ~funnyCommit
    THEN {[ok |-> TRUE, msg |-> sWip, read |-> FALSE, caught |-> FALSE]}
    ELSE IF ~p.exists
    THEN {[ok |-> FALSE, msg |-> <<>>, read |-> TRUE, caught |-> TRUE]}
    ELSE LET commitMessageFileLines == EligibleLines(p.lines)
         IN  IF commitMessageFileLines = <<>>
             THEN {[ok |-> FALSE, msg |-> <<>>, read |-> TRUE, caught |-> FALSE]}
             ELSE {[ok |-> TRUE, msg |-> Trim(commitMessageFileLines[i]),
                    read |-> TRUE, caught |-> FALSE] :
                      i \in 1..Len(commitMessageFileLines)}

\* const commitMessage = await getCommitMessage(config.FUNNY_COMMIT)
VariantGetCommitMessage ==
    /\ pc = "getCommitMessage"
    /\ \E p \in PoolFiles :
         \E r \in VariantGetCommitMessageOf(config[kFunnyCommit], p) :
            /\ pool' = IF r.read THEN p ELSE pool
            /\ poolRead' = r.read
            /\ commitMessage' = r.msg
            /\ out' = IF r.caught THEN Append(out, "Error reading file") ELSE out
            /\ IF r.ok THEN Goto("ifWipIt")
               ELSE IF r.caught THEN Exit(1) ELSE Throw
    /\ UNCHANGED <<script, platform, installed, setupVars, cmds, prompts, repoVars, wipIt,
                   planVars, prVars>>

\* the comparison against main and master only
IsDefaultVariantTwo(branch) == branch = sMain \/ branch = sMaster

\* baseBranch === 'main' || baseBranch === 'master' || baseBranch === 'bullseye'
IsDefaultVariant(branch) == branch = sMain \/ branch = sMaster \/ branch = sBullseye

VariantClassify ==
    /\ pc = "classify"
    /\ isDefaultBranch' = IsDefaultVariant(baseBranch)
    /\ Goto("ifNotDefault")
    /\ UNCHANGED <<script, platform, installed, setupVars, cmds, prompts, out, baseBranch,
                   statusOutput, isClean, directVars, commitMessage, planVars, prVars>>

\* gh pr create -f -B ${baseBranch} with nothrow and without quiet: what gh
\* prints is echoed to the terminal as well as captured
VariantPrCreate ==
    /\ pc = "prCreate"
    /\ \E code \in ExitCodesOf(tGh), o \in PrOutputs :
         /\ cmds' = Append(cmds, PrCreateCommand(code))
         /\ IF code # 0
            THEN /\ out' = out \o <<"gh output", "Could not create PR",
                                    "PR create stdout", "PR create stderr">>
                 /\ UNCHANGED <<outputPrCreate, trimmedOutput>>
                 /\ Exit(1)
            ELSE /\ outputPrCreate' = o
                 /\ trimmedOutput' = Trim(o)
                 /\ out' = out \o <<"gh output", "Created PR">>
                 /\ Goto("copyToClipboard")
    /\ UNCHANGED <<script, platform, installed, setupVars, prompts, repoVars, directVars,
                   commitMessage, planVars, prNumber>>

\* a store naming inherited properties beside a toggle
PrototypeStore ==
    << sToString \o <<"=">> \o sFalse,
       sConstructor \o <<"=", "x">>,
       sProto \o <<"=">> \o sTrue,
       kCreatePr \o <<"=">> \o sFalse >>

EquivStores == { NoFile, File(EditedStore), File(PrototypeStore) }

\* either script started on the same store, tools and platform
EquivInit ==
    /\ pc = "loadConfig"
    /\ exitCode = 0
    /\ script \in Scripts
    /\ platform \in Platforms
    /\ installed \in Installations
    /\ configStore \in EquivStores
    /\ config = DefaultConfig
    /\ warnings = <<>>
    /\ missingCommands = <<>>
    /\ setupAnswers = <<>>
    /\ shell = ""
    /\ aliasAdded = FALSE
    /\ readmeMarked = FALSE
    /\ cmds = <<>>
    /\ prompts = <<>>
    /\ out = <<>>
    /\ baseBranch = <<>>
    /\ statusOutput = <<>>
    /\ isClean = FALSE
    /\ isDefaultBranch = FALSE
    /\ wipIt = FALSE
    /\ pool = NoFile
    /\ poolRead = FALSE
    /\ commitMessage = <<>>
    /\ createBranch = FALSE
    /\ branchName = <<>>
    /\ fixedBranchName = <<>>
    /\ createPr = FALSE
    /\ enableAutoMerge = FALSE
    /\ backToDefault = FALSE
    /\ deleteBranch = FALSE
    /\ outputPrCreate = <<>>
    /\ trimmedOutput = <<>>
    /\ prNumber = <<>>

\* the steps whose text differs, as src/index.ts has them
IndexStep ==
    /\ script = sIndex
    /\ \/ LoadConfig
       \/ WriteConfig
       \/ EnsureAliasExists
       \/ Classify
       \/ GetCommitMessage
       \/ PrCreate

\* the same steps as the variant has them
VariantStep ==
    /\ script = sVariant
    /\ \/ VariantLoadConfig
       \/ VariantWriteConfig
       \/ VariantClassify
       \/ VariantGetCommitMessage
       \/ VariantPrCreate

\* the steps whose text is the same in both files
SharedStep ==
    \/ CheckBinaries
    \/ SetupConfirm
    \/ ParseArgs
    \/ QueryBranch
    \/ QueryStatus
    \/ IfNotDefault
    \/ WipPrompt
    \/ DirectSkip
    \/ DirectAdd
    \/ DirectCommit
    \/ DirectPush
    \/ IfDefault
    \/ CreateBranchPrompt
    \/ BranchNamePrompt
    \/ CommitMessagePrompt
    \/ CreatePrPrompt
    \/ AutoMergePrompt
    \/ BackToDefaultPrompt
    \/ DeleteBranchPrompt
    \/ CheckoutNew
    \/ FeatureAdd
    \/ FeatureCommit
    \/ FeaturePush
    \/ CopyToClipboard
    \/ PrMerge
    \/ CheckoutBaseSkip
    \/ CheckoutBase
    \/ DeleteBranchSkip
    \/ DeleteBranch

EquivNext == IndexStep \/ VariantStep \/ SharedStep

EquivSpec == EquivInit /\ [][EquivNext]_vars
(* ------------------------------------------------------------------ *)
(* C25: src/index.ts and the variant compared                          *)
(* ------------------------------------------------------------------ *)
\* A run of either script is compared with what its inputs determine: the
\* store found at start, the tools installed, the platform, the captured
\* branch and status, the operator's answers and the command outcomes.
\* None of the definitions below mentions the script, so two runs on the
\* same inputs that both agree with them agree with each other.

\* the run found no store and entered first-run setup
FirstRun == pc = "checkBinaries" \/ Issued(ProbeCommands) # {}

\* the toggles of each store, as loadConfig of src/index.ts parses them
EquivToggles == [s \in EquivStores \ {NoFile} |-> ParseConfig(s.lines)]

FiveToggles == [k \in configKeySet |-> config[k]]

PromptMessages == [i \in 1..Len(prompts) |-> prompts[i].message]

\* both queries succeeded and the working tree is not clean
WorkflowEntered ==
    /\ Len(cmds) >= 2
    /\ cmds[1].exit = 0
    /\ cmds[2].exit = 0
    /\ ~IsCleanStatus(statusOutput)

\* the prompts of a finished run that loaded its configuration
EquivPrompts ==
    IF ~WorkflowEntered THEN << >>
    ELSE IF baseBranch \notin defaultBranches THEN << "wip?" >>
    ELSE IF Answered("Create Branch?", FALSE) THEN << "Create Branch?" >>
    ELSE ExpectedPlanPrompts

\* a finished run that loaded its configuration
LoadedRunAgrees ==
    /\ PromptMessages = EquivPrompts
    /\ Len(cmds) <= Len(PlannedCommands)
    /\ IssuedNameArgs = SubSeq(PlannedCommands, 1, Len(cmds))
    /\ \A i \in 1..Len(cmds) : FatalAt(i) => i = Len(cmds)
    /\ exitCode = PlannedExit
    /\ exitCode = 0 => Len(cmds) = Len(PlannedCommands)

\* the probes of checkBinaries
EquivProbes ==
    [i \in 1..Len(requiredCommands) |->
        NameArg(IF platform = "win32" THEN "where" ELSE "command -v",
                requiredCommands[i])]

\* a finished first run: the probes, the five setup prompts when no tool is
\* missing, and the given exit code
FirstRunAgrees(code) ==
    /\ IssuedNameArgs = EquivProbes
    /\ PromptMessages = (IF ToolMissing THEN << >> ELSE setupMessages)
    /\ configStore.exists => StoreHoldsAnswers
    /\ exitCode = code

\* exit code of a first run that ends once the store is written
ExitAfterWrite == IF ToolMissing \/ ~configStore.exists THEN 1 ELSE 0

\* exit code of a first run that goes on to the alias step
ExitAfterAlias ==
    IF ToolMissing \/ ~configStore.exists THEN 1
    ELSE IF AliasStepDone THEN 0 ELSE 1

\* C25 as stated: on the same store, repository state, answers and command
\* outcomes both scripts resolve the same five toggles, ask the same
\* prompts in the same order, issue the same commands and exit alike, in
\* every run, first runs included.
C25_Equivalent_AsStated ==
    /\ ConfigReturned => FiveToggles = EquivToggles[configStore]
    /\ Exited =>
          IF FirstRun THEN FirstRunAgrees(ExitAfterWrite) ELSE LoadedRunAgrees

\* C25: in every run that finds an existing store both scripts resolve the
\* same five toggles, ask the same workflow prompts in the same order,
\* issue the same git/gh commands and exit alike.  On a first run both
\* issue the same probes, ask the same five setup prompts and write the
\* same store; the variant then exits 0, where src/index.ts exits 0 only
\* when its alias step succeeds.
C25_Equivalent ==
    /\ ConfigReturned => FiveToggles = EquivToggles[configStore]
    /\ Exited =>
          IF FirstRun
          THEN FirstRunAgrees(IF script = sIndex THEN ExitAfterAlias
                              ELSE ExitAfterWrite)
          ELSE LoadedRunAgrees

\* the variant, on a store naming inherited properties and on branch
\* bullseye, carried the feature-branch path through to the deletion
C25_Witness ==
    /\ script = sVariant
    /\ configStore = File(PrototypeStore)
    /\ sToString \in DOMAIN config
    /\ baseBranch = sBullseye
    /\ Exited
    /\ exitCode = 0
    /\ Issued({"gh pr merge --auto --squash"}) # {}
    /\ cmds[Len(cmds)].cmd = "git branch -d"

====
